---- MODULE Spec2Model ----
(***************************************************************************)
(* CodeCoach Studio: the quiz session of the client (QuizManager.tsx), the *)
(* schema normalizers of client and server, and the JSON datastore of the  *)
(* server (backend/index.js, stored in this tree as components/Modal.tsx). *)
(***************************************************************************)
EXTENDS Integers, Sequences, FiniteSets, TLC

VARIABLES
  \* React state of QuizManager (useState hooks), as of the last commit
  quiz, mode, answers, score, grading,
  proctorEnabled, proctorWarnings, proctorEvents, takeStartedAt, timeElapsed,
  \* runtime of the component: props, effects, scheduled updates, async grade()
  mounted, authToken, timers, attached, pending, gradePc, gradeCtx, now,
  \* server: the JSON file, the chained writes, the request handlers
  db, writeQueue, queueRejected, reqs, uuid,
  \* AI quiz generation: the client's request state, the server's callModel invocation
  gen, call,
  \* inputs and results of the pure functions
  rawIn, normOut,
  \* history: the events captured in this entry into taking
  captured

clientVars == <<quiz, mode, answers, score, grading,
                proctorEnabled, proctorWarnings, proctorEvents, takeStartedAt, timeElapsed>>
runVars    == <<mounted, authToken, timers, attached, pending, gradePc, gradeCtx, now>>
serverVars == <<db, writeQueue, queueRejected, reqs, uuid>>
aiVars     == <<gen, call>>
pureVars   == <<rawIn, normOut>>
histVars   == <<captured>>
vars       == <<clientVars, runVars, serverVars, aiVars, pureVars, histVars>>

(***************************************************************************)
(* JavaScript values.  A number is kept in halves (h = 2 * value), so that *)
(* 1.5 is a value and Math.round is something that can go wrong.           *)
(***************************************************************************)
Undef    == [t |-> "undefined"]
Null     == [t |-> "null"]
NaN      == [t |-> "NaN"]
PosInf   == [t |-> "Infinity"]
NegInf   == [t |-> "-Infinity"]
Num(h)   == [t |-> "number", h |-> h]
Int2(i)  == Num(2 * i)
\* a string; n is what Number() makes of its text
Str(s)       == [t |-> "string", s |-> s, n |-> NaN]
NumStr(s, h) == [t |-> "string", s |-> s, n |-> Num(h)]
EmptyStr     == NumStr("", 0)
Arr(a)   == [t |-> "array", a |-> a]
Bool(b)  == [t |-> "boolean", b |-> b]
None     == <<>>
Some(v)  == <<v>>

IsNumeric(v) == v.t \in {"number", "NaN", "Infinity", "-Infinity"}

\* ToBoolean
Truthy(v) ==
  CASE v.t \in {"undefined", "null", "NaN"} -> FALSE
    [] v.t = "number" -> v.h # 0
    [] v.t = "string" -> Len(v.s) > 0
    [] v.t = "boolean" -> v.b
    [] OTHER -> TRUE

\* x || y
OrElse(x, y) == IF Truthy(x) THEN x ELSE y

\* input?.f
Get(v, f) == IF v.t = "object" /\ f \in DOMAIN v THEN v[f] ELSE Undef

\* Number(v)
ToNumber(v) ==
  CASE IsNumeric(v) -> v
    [] v.t = "null" -> Num(0)
    [] v.t = "boolean" -> Num(IF v.b THEN 2 ELSE 0)
    [] v.t = "string" -> v.n
    [] v.t = "array" -> IF Len(v.a) = 0 THEN Num(0) ELSE NaN
    [] OTHER -> NaN

\* String(v), for the values that occur as ids, levels and options
NumToString(h) ==
  LET a == IF h < 0 THEN -h ELSE h
      digits == ToString(a \div 2) \o (IF a % 2 = 1 THEN ".5" ELSE "")
  IN  IF h < 0 THEN "-" \o digits ELSE digits

RECURSIVE ToStr(_)
ToStr(v) ==
  CASE v.t = "string" -> v.s
    [] v.t = "number" -> NumToString(v.h)
    [] v.t = "array" ->
         IF Len(v.a) = 0 THEN ""
         ELSE LET el(x) == IF x.t \in {"undefined", "null"} THEN "" ELSE ToStr(x)
                  rest == SubSeq(v.a, 2, Len(v.a))
              IN  IF Len(rest) = 0 THEN el(v.a[1])
                  ELSE el(v.a[1]) \o "," \o ToStr(Arr(rest))
    [] v.t = "object" -> "[object Object]"
    [] v.t = "boolean" -> IF v.b THEN "true" ELSE "false"
    [] OTHER -> v.t

\* Math.round: to the nearest integer, halves upwards
MathRound(h) == (h + 1) \div 2

Max2(a, b) == IF a > b THEN a ELSE b
Min2(a, b) == IF a < b THEN a ELSE b

\* s.toLowerCase() for the level names that occur
LowerCase(s) ==
  CASE s = "Easy" -> "easy"
    [] s = "MEDIUM" -> "medium"
    [] s = "Hard" -> "hard"
    [] OTHER -> s

\* array.map(f).filter(Boolean) of String(x || ""): the truthy entries, as strings
RECURSIVE TruthyStrings(_)
TruthyStrings(a) ==
  IF Len(a) = 0 THEN <<>>
  ELSE LET s == ToStr(OrElse(Head(a), EmptyStr))
       IN  (IF Len(s) > 0 THEN <<s>> ELSE <<>>) \o TruthyStrings(Tail(a))

Take(a, n) == SubSeq(a, 1, Min2(n, Len(a)))
LastN(a, n) == SubSeq(a, Max2(1, Len(a) - n + 1), Len(a))

(***************************************************************************)
(* Schema normalizer of the client (QuizManager.tsx)                       *)
(***************************************************************************)
LEVEL_POINTS == [easy |-> 1, medium |-> 2, hard |-> 3]

pointsForLevel(level) == LEVEL_POINTS[level]

normalizeLevel(level) ==
  IF level.t = "string" /\ level.s \in {"easy", "medium", "hard"} THEN level.s ELSE "medium"

normalizeType(type) ==
  IF type.t = "string" /\ type.s \in {"mcq", "text", "code"} THEN type.s ELSE "text"

\* while (options.length < 4) options.push(`Option ${options.length + 1}`)
RECURSIVE PadOptions(_)
PadOptions(options) ==
  IF Len(options) < 4
  THEN PadOptions(Append(options, "Option " \o ToString(Len(options) + 1)))
  ELSE options

\* Math.max(0, Math.min(3, Number(input?.correctIndex) || 0)): clamped, not rounded
ClientCorrectIndex(v) ==
  LET n == OrElse(ToNumber(v), Num(0))
  IN  CASE n.t = "Infinity" -> Num(6)
        [] n.t = "-Infinity" -> Num(0)
        [] OTHER -> Num(Max2(0, Min2(6, n.h)))

\* Number.isFinite(Number(p)) ? Math.max(1, Math.round(Number(p))) : pointsForLevel(level)
ClientPoints(p, level) ==
  LET n == ToNumber(p)
  IN  IF n.t = "number" THEN Int2(Max2(1, MathRound(n.h))) ELSE Int2(pointsForLevel(level))

StringList(v) == IF v.t = "array" THEN TruthyStrings(v.a) ELSE <<>>

normalizeQuestion(input, index) ==
  LET type  == normalizeType(Get(input, "type"))
      level == normalizeLevel(Get(input, "level"))
      base  == [id |-> ToStr(OrElse(Get(input, "id"), Str("q" \o ToString(index + 1)))),
                type |-> type,
                q |-> ToStr(OrElse(Get(input, "q"), Str("Question " \o ToString(index + 1)))),
                level |-> level,
                points |-> ClientPoints(Get(input, "points"), level)]
  IN  CASE type = "mcq" ->
             [id |-> base.id, type |-> "mcq", q |-> base.q, level |-> base.level,
              points |-> base.points,
              options |-> PadOptions(Take(StringList(Get(input, "options")), 4)),
              correctIndex |-> ClientCorrectIndex(Get(input, "correctIndex"))]
        [] type = "code" ->
             [id |-> base.id, type |-> "code", q |-> base.q, level |-> base.level,
              points |-> base.points,
              starterCode |-> ToStr(OrElse(Get(input, "starterCode"), EmptyStr)),
              expectedKeyPoints |-> StringList(Get(input, "expectedKeyPoints"))]
        [] OTHER ->
             [id |-> base.id, type |-> "text", q |-> base.q, level |-> base.level,
              points |-> base.points,
              keywords |-> StringList(Get(input, "keywords"))]

DefaultQuestion ==
  [id |-> "q1", type |-> "mcq", q |-> "What does function sum(a, b) return?",
   options |-> <<"a - b", "a + b", "a * b", "b - a">>, correctIndex |-> Int2(1),
   level |-> "easy", points |-> Int2(1)]

normalizeQuiz(input) ==
  LET qs == Get(input, "questions")
      rawQuestions == IF qs.t = "array" THEN qs.a ELSE <<>>
      questions == [i \in 1..Len(rawQuestions) |-> normalizeQuestion(rawQuestions[i], i - 1)]
  IN  [title |-> ToStr(OrElse(Get(input, "title"), Str("Practice Quiz"))),
       description |-> ToStr(OrElse(Get(input, "description"), Str("AI-ready coding quiz"))),
       questions |-> IF Len(questions) > 0 THEN questions ELSE <<DefaultQuestion>>]

\* the quiz the component loads at mount (useEffect at lines 232-236)
createSampleQuiz ==
  normalizeQuiz([t |-> "object",
    title |-> Str("Sample: sum function quiz"),
    description |-> Str("Small quiz to test the sum example"),
    questions |-> Arr(<<
      [t |-> "object", id |-> Str("q1"), type |-> Str("mcq"),
       q |-> Str("What does sum(a, b) return?"),
       options |-> Arr(<<Str("a - b"), Str("a + b"), Str("a * b"), Str("b - a")>>),
       correctIndex |-> Int2(1), points |-> Int2(1), level |-> Str("easy")],
      [t |-> "object", id |-> Str("q2"), type |-> Str("text"),
       q |-> Str("Explain in one sentence what sum(a, b) does."),
       points |-> Int2(2), level |-> Str("medium"),
       keywords |-> Arr(<<Str(<<"a", "d", "d">>), Str(<<"s", "u", "m">>),
                          Str(<<"t", "w", "o">>),
                          Str(<<"n", "u", "m", "b", "e", "r", "s">>)>>)],
      [t |-> "object", id |-> Str("q3"), type |-> Str("code"),
       q |-> Str("Write a function multiply(a, b) that returns a * b."),
       points |-> Int2(3), level |-> Str("hard"),
       starterCode |-> Str("function multiply(a, b) {\n  // your code\n}"),
       expectedKeyPoints |-> Arr(<<
         Str(<<"f", "u", "n", "c", "t", "i", "o", "n", " ", "d", "e", "c", "l", "a", "r", "a", "t", "i", "o", "n">>),
         Str(<<"r", "e", "t", "u", "r", "n", " ", "a", " ", "*", " ", "b">>)>>)]
    >>)])

(***************************************************************************)
(* Schema normalizer of the server (backend/index.js).  Its result is the  *)
(* JSON object sent to the client, so it is kept as a JavaScript value.    *)
(***************************************************************************)
\* clampNumber(value, min, max, fallback): rounds, then clamps
clampNumber(value, min, max, fallback) ==
  LET n == ToNumber(value)
  IN  CASE n.t = "NaN" -> fallback
        [] n.t = "Infinity" -> max
        [] n.t = "-Infinity" -> min
        [] OTHER -> Max2(min, Min2(max, MathRound(n.h)))

serverNormalizeLevel(value) ==
  LET v == LowerCase(ToStr(OrElse(value, EmptyStr)))
  IN  IF v \in {"easy", "medium", "hard"} THEN v ELSE "medium"

serverNormalizeQuestion(raw, idx) ==
  LET ty    == Get(raw, "type")
      type  == IF ty.t = "string" /\ ty.s \in {"mcq", "text", "code"} THEN ty.s ELSE "text"
      level == serverNormalizeLevel(Get(raw, "level"))
      id    == OrElse(Get(raw, "id"), Str("q" \o ToString(idx + 1)))
      q     == Str(ToStr(OrElse(Get(raw, "q"), Str("Question " \o ToString(idx + 1)))))
      points == Int2(clampNumber(Get(raw, "points"), 1, 10, LEVEL_POINTS[level]))
      strs(v) == LET l == StringList(v) IN [i \in 1..Len(l) |-> Str(l[i])]
  IN  CASE type = "mcq" ->
             [t |-> "object", id |-> id, type |-> Str(type), level |-> Str(level), q |-> q,
              points |-> points,
              options |-> Arr(LET o == PadOptions(Take(StringList(Get(raw, "options")), 4))
                              IN  [i \in 1..Len(o) |-> Str(o[i])]),
              correctIndex |-> Int2(clampNumber(Get(raw, "correctIndex"), 0, 3, 0))]
        [] type = "code" ->
             [t |-> "object", id |-> id, type |-> Str(type), level |-> Str(level), q |-> q,
              points |-> points,
              starterCode |-> Str(ToStr(OrElse(Get(raw, "starterCode"), EmptyStr))),
              expectedKeyPoints |-> Arr(strs(Get(raw, "expectedKeyPoints")))]
        [] OTHER ->
             [t |-> "object", id |-> id, type |-> Str(type), level |-> Str(level), q |-> q,
              points |-> points,
              keywords |-> Arr(strs(Get(raw, "keywords")))]

\* a server normalizer that coerces every raw question and never truncates
serverNormalizeQuiz_NoTruncation(parsed, fallbackCount) ==
  LET qs == Get(parsed, "questions")
      rawQuestions == IF qs.t = "array" THEN qs.a ELSE <<>>
      questions == [i \in 1..Len(rawQuestions) |->
                      serverNormalizeQuestion(rawQuestions[i], i - 1)]
  IN  IF Len(questions) = 0
      THEN [threw |-> TRUE, message |-> "AI response did not contain questions"]
      ELSE [threw |-> FALSE,
            quiz |-> [t |-> "object",
                      title |-> Str(ToStr(OrElse(Get(parsed, "title"),
                                                 Str("AI Generated Quiz")))),
                      description |->
                        Str(ToStr(OrElse(Get(parsed, "description"),
                                         Str("Practice quiz generated by AI")))),
                      questions |-> Arr(questions)]]

\* normalizeQuiz(parsed, fallbackCount) of the server: the quiz, or the Error thrown
serverNormalizeQuiz(parsed, fallbackCount) ==
  LET qs == Get(parsed, "questions")
      rawQuestions == IF qs.t = "array" THEN Take(qs.a, fallbackCount) ELSE <<>>
      questions == [i \in 1..Len(rawQuestions) |->
                      serverNormalizeQuestion(rawQuestions[i], i - 1)]
  IN  IF Len(questions) = 0
      THEN [threw |-> TRUE, message |-> "AI response did not contain questions"]
      ELSE [threw |-> FALSE,
            quiz |-> [t |-> "object",
                      title |-> Str(ToStr(OrElse(Get(parsed, "title"),
                                                 Str("AI Generated Quiz")))),
                      description |->
                        Str(ToStr(OrElse(Get(parsed, "description"),
                                         Str("Practice quiz generated by AI")))),
                      questions |-> Arr(questions)]]

(***************************************************************************)
(* Scoring engine: grade() of QuizManager.tsx, lines 437-518.  Answer and  *)
(* keyword texts are sequences of characters; points, total and earned are *)
(* counted in halves, and the arithmetic is exact.                         *)
(***************************************************************************)
UpperLetters == <<"A", "B", "C", "D", "E", "F", "G", "H", "I", "J", "K", "L", "M",
                  "N", "O", "P", "Q", "R", "S", "T", "U", "V", "W", "X", "Y", "Z">>
LowerLetters == <<"a", "b", "c", "d", "e", "f", "g", "h", "i", "j", "k", "l", "m",
                  "n", "o", "p", "q", "r", "s", "t", "u", "v", "w", "x", "y", "z">>

\* text.toLowerCase()
ToLowerCase(text) ==
  [i \in 1..Len(text) |->
     IF \E k \in 1..26 : UpperLetters[k] = text[i]
     THEN LowerLetters[CHOOSE k \in 1..26 : UpperLetters[k] = text[i]]
     ELSE text[i]]

\* text.includes(part)
Includes(text, part) ==
  \E i \in 1..(Len(text) - Len(part) + 1) : SubSeq(text, i, i + Len(part) - 1) = part

\* String(value || ""), as characters
AnswerText(value) ==
  LET v == OrElse(value, Str(<<>>))
  IN  CASE v.t = "string" -> v.s
        [] v.t = "number" -> <<NumToString(v.h)>>
        [] OTHER -> <<ToStr(v)>>

\* a variant that never finds the learner's answer
AnswerValue_Missing(ans, id) == Undef

\* a?.value of answers[id]
AnswerValue(ans, id) == IF id \in DOMAIN ans THEN ans[id].value ELSE Undef

\* x ?? ""
OrEmpty(v) == IF v.t \in {"undefined", "null"} THEN Str(<<>>) ELSE v

Put(f, k, v) == [x \in DOMAIN f \cup {k} |-> IF x = k THEN v ELSE f[x]]

RECURSIVE CountMatches(_, _)
CountMatches(text, parts) ==
  IF Len(parts) = 0 THEN 0
  ELSE (IF Includes(text, ToLowerCase(Head(parts))) THEN 1 ELSE 0)
       + CountMatches(text, Tail(parts))

\* Math.round(Math.min(1, matched / Math.max(1, count)) * pts), pts and the result
\* in halves
AwardedPoints_Floor(matched, count, pts) ==
  LET c == Max2(1, count)
      m == Min2(matched, c)
  IN  2 * ((m * pts) \div (2 * c))

AwardedPoints(matched, count, pts) ==
  LET c == Max2(1, count)
      m == Min2(matched, c)
  IN  2 * ((m * pts + c) \div (2 * c))

\* a variant that tags nothing
AddWeakArea_Never(weak, tag) == weak

\* new Set<string>().add(tag), kept in insertion order
AddWeakArea(weak, tag) ==
  IF \E i \in 1..Len(weak) : weak[i] = tag THEN weak ELSE Append(weak, tag)

\* the body of quiz.questions.forEach for one question
GradeQuestion(q, ans, acc) ==
  LET pts   == IF Truthy(q.points) THEN q.points.h ELSE 2 * pointsForLevel(q.level)
      value == AnswerValue(ans, q.id)
      tag   == q.type \o "-" \o q.level
      parts == IF q.type = "text" THEN q.keywords ELSE q.expectedKeyPoints
      awarded == AwardedPoints(CountMatches(ToLowerCase(AnswerText(value)), parts),
                               Len(parts), pts)
  IN  IF q.type = "mcq"
      THEN LET selected == IF value.t = "number" THEN value ELSE Null
               correct  == selected = q.correctIndex
           IN  [total |-> acc.total + pts,
                earned |-> acc.earned + (IF correct THEN pts ELSE 0),
                nextAnswers |-> Put(acc.nextAnswers, q.id,
                   [id |-> q.id, type |-> q.type, value |-> selected,
                    correct |-> Bool(correct),
                    pointsAwarded |-> Num(IF correct THEN pts ELSE 0)]),
                weakAreas |-> IF correct THEN acc.weakAreas ELSE AddWeakArea(acc.weakAreas, tag)]
      ELSE IF Len(parts) = 0
      THEN [total |-> acc.total + pts,
            earned |-> acc.earned,
            nextAnswers |-> Put(acc.nextAnswers, q.id,
               [id |-> q.id, type |-> q.type, value |-> OrEmpty(value),
                correct |-> Null, pointsAwarded |-> Num(0)]),
            weakAreas |-> AddWeakArea(acc.weakAreas, tag)]
      ELSE [total |-> acc.total + pts,
            earned |-> acc.earned + awarded,
            nextAnswers |-> Put(acc.nextAnswers, q.id,
               [id |-> q.id, type |-> q.type, value |-> OrEmpty(value),
                correct |-> Bool(awarded = pts), pointsAwarded |-> Num(awarded)]),
            weakAreas |-> IF awarded < pts THEN AddWeakArea(acc.weakAreas, tag)
                          ELSE acc.weakAreas]

RECURSIVE GradeFrom(_, _, _, _)
GradeFrom(questions, i, ans, acc) ==
  IF i > Len(questions) THEN acc
  ELSE GradeFrom(questions, i + 1, ans, GradeQuestion(questions[i], ans, acc))

\* total > 0 ? Math.round((earned / total) * 100) : 0
ScoreValue(earned, total) ==
  IF total > 0 THEN (200 * earned + total) \div (2 * total) ELSE 0

\* the synchronous scoring pass of grade(): next answers, score, weak areas
GradeResult(qz, ans) ==
  LET acc == GradeFrom(qz.questions, 1, ans,
                       [total |-> 0, earned |-> 0, nextAnswers |-> ans, weakAreas |-> <<>>])
  IN  [nextAnswers |-> acc.nextAnswers,
       scoreValue |-> ScoreValue(acc.earned, acc.total),
       weakAreas |-> acc.weakAreas]

(***************************************************************************)
(* Proctoring event collector and timer: the two effects of QuizManager.   *)
(* Callbacks that run outside a React handler (DOM listeners, the interval)*)
(* only schedule updates; the updates are applied, in order, at the next   *)
(* render.  A click handler renders at once and runs the effects whose     *)
(* dependencies changed.                                                   *)
(***************************************************************************)
Observers == {"blur", "visibilitychange", "copy", "paste", "contextmenu"}

\* the ProctorEvent each listener pushes (the timestamp `at` is not modelled:
\* no operation reads it)
EventOf(kind) ==
  CASE kind = "visibilitychange" ->
         [type |-> "tab_hidden", detail |-> "User switched tabs or minimized window"]
    [] kind = "blur" -> [type |-> "window_blur", detail |-> "Window lost focus"]
    [] kind = "copy" ->
         [type |-> "copy_attempt", detail |-> "Copy was attempted during proctored quiz"]
    [] kind = "paste" ->
         [type |-> "paste_attempt", detail |-> "Paste was attempted during proctored quiz"]
    [] OTHER ->
         [type |-> "context_menu", detail |-> "Right click blocked in proctored mode"]

\* a log that keeps its oldest entries: [...prev, event].slice(0, 50)
AppendCapped_KeepOldest(prev, ev) == Take(Append(prev, ev), 50)

\* [...prev, event].slice(-50)
ProctorLogCap == 50
AppendCapped(prev, ev) == LastN(Append(prev, ev), ProctorLogCap)

\* a collector that writes values computed from the state of the last render:
\* setProctorEvents([...proctorEvents, event].slice(-50)) and
\* setProctorWarnings(proctorWarnings + 1)
pushEvent_FromRenderedState(ev) ==
  <<[var |-> "proctorEvents", op |-> "set",
     value |-> LastN(Append(proctorEvents, ev), 50)],
    [var |-> "proctorWarnings", op |-> "set", value |-> proctorWarnings + 1]>>

\* pushEvent: two functional updates, setProctorEvents(prev => ...) and
\* setProctorWarnings(prev => prev + 1)
pushEvent(ev) ==
  <<[var |-> "proctorEvents", op |-> "append", ev |-> ev],
    [var |-> "proctorWarnings", op |-> "inc"]>>

\* one scheduled update applied to the state it finds
ApplyUpdate(u, st) ==
  CASE u.var = "proctorEvents" ->
         [st EXCEPT !.proctorEvents =
            IF u.op = "append" THEN AppendCapped(@, u.ev) ELSE u.value]
    [] u.var = "proctorWarnings" ->
         [st EXCEPT !.proctorWarnings = IF u.op = "inc" THEN @ + 1 ELSE u.value]
    [] OTHER ->
         [st EXCEPT !.timeElapsed = IF u.op = "inc" THEN @ + 1 ELSE u.value]

RECURSIVE Flush(_, _)
Flush(queue, st) ==
  IF Len(queue) = 0 THEN st ELSE Flush(Tail(queue), ApplyUpdate(Head(queue), st))

Committed == [timeElapsed |-> timeElapsed, proctorEvents |-> proctorEvents,
              proctorWarnings |-> proctorWarnings]

\* the state the next render will show
Effective == Flush(pending, Committed)

\* a take-mode effect that resets only when the mode changes to 'take'
TakeEffectResets_OnEntryOnly(m, started) == m = "take" /\ started = None /\ mode # "take"

\* take-mode effect, deps [mode, takeStartedAt]: does its body reset the attempt?
TakeEffectResets(m, started) == m = "take" /\ started = None

\* a take-mode effect without its cleanup function
TimersAfter_NoCleanup(prevMode, m, live) == live + (IF m = "take" THEN 1 ELSE 0)

\* take-mode effect: the live intervals after cleanup of the old run and the new run
TimersAfter(prevMode, m, live) ==
  (live - (IF prevMode = "take" THEN 1 ELSE 0)) + (IF m = "take" THEN 1 ELSE 0)

\* a proctoring effect without its cleanup function
ProctorEffect_NoCleanup(prevMode, prevEnabled, m, enabled, listeners) ==
  listeners \cup (IF m = "take" /\ enabled THEN Observers ELSE {})

\* proctoring effect, deps [mode, proctorEnabled]: the attached listeners after
\* cleanup of the old run and the new run
ProctorEffect(prevMode, prevEnabled, m, enabled, listeners) ==
  (listeners \ (IF prevMode = "take" /\ prevEnabled THEN Observers ELSE {}))
    \cup (IF m = "take" /\ enabled THEN Observers ELSE {})

\* A render and commit with mode, takeStartedAt and proctorEnabled as the handler
\* set them, followed by the effects and the renders they cause.
Commit(m, started, enabled) ==
  LET st == Effective
      takeRuns == <<m, started>> # <<mode, takeStartedAt>>
      resets == takeRuns /\ TakeEffectResets(m, started)
      procRuns == <<m, enabled>> # <<mode, proctorEnabled>>
  IN  /\ mode' = m
      /\ proctorEnabled' = enabled
      /\ takeStartedAt' = IF resets THEN Some(now) ELSE started
      /\ timeElapsed' = IF resets THEN 0 ELSE st.timeElapsed
      /\ proctorEvents' = IF resets THEN <<>> ELSE st.proctorEvents
      /\ proctorWarnings' = IF resets THEN 0 ELSE st.proctorWarnings
      /\ captured' = IF resets THEN <<>> ELSE captured
      /\ timers' = IF takeRuns THEN TimersAfter(mode, m, timers) ELSE timers
      /\ attached' = IF procRuns
                     THEN ProctorEffect(mode, proctorEnabled, m, enabled, attached)
                     ELSE attached
      /\ pending' = <<>>

\* what a DOM event can be: its kind and, for visibilitychange, the new state
SignalInputs ==
  {sig \in [kind : Observers, hidden : BOOLEAN] : sig.kind # "visibilitychange" => ~sig.hidden}

\* The browser dispatches a DOM event; its listener, if attached, runs.
OnSignal(sig, limit, room) ==
  /\ mounted
  /\ Len(captured) < limit
  /\ Len(pending) + 2 <= room
  /\ IF sig.kind \in attached /\ (sig.kind = "visibilitychange" => sig.hidden)
     THEN /\ pending' = pending \o pushEvent(EventOf(sig.kind))
          /\ captured' = Append(captured, EventOf(sig.kind))
     ELSE UNCHANGED <<pending, captured>>
  /\ UNCHANGED <<clientVars, mounted, authToken, timers, attached, gradePc, gradeCtx, now,
                 serverVars, aiVars, pureVars>>

\* The interval of the take-mode effect fires: setTimeElapsed(prev => prev + 1)
OnTick(limit, room) ==
  /\ mounted
  /\ timers > 0
  /\ Effective.timeElapsed < limit
  /\ Len(pending) + 1 <= room
  /\ pending' = Append(pending, [var |-> "timeElapsed", op |-> "inc"])
  /\ UNCHANGED <<clientVars, mounted, authToken, timers, attached, gradePc, gradeCtx, now,
                 serverVars, aiVars, pureVars, histVars>>

\* React renders the scheduled updates
Render ==
  /\ mounted
  /\ Len(pending) > 0
  /\ Commit(mode, takeStartedAt, proctorEnabled)
  /\ UNCHANGED <<quiz, answers, score, grading, mounted, authToken, gradePc, gradeCtx, now,
                 serverVars, aiVars, pureVars>>

\* "Take Quiz" button (lines 593-598)
TakeQuiz ==
  /\ mounted
  /\ answers' = <<>>
  /\ score' = None
  /\ Commit("take", None, proctorEnabled)
  /\ UNCHANGED <<quiz, grading, mounted, authToken, gradePc, gradeCtx, now,
                 serverVars, aiVars, pureVars>>

\* "Instructor Editor" button (line 603)
InstructorEditor ==
  /\ mounted
  /\ Commit("editor", takeStartedAt, proctorEnabled)
  /\ UNCHANGED <<quiz, answers, score, grading, mounted, authToken, gradePc, gradeCtx, now,
                 serverVars, aiVars, pureVars>>

\* a checkbox handler that also starts the attempt afresh
ToggleProctor_Restart ==
  /\ mounted
  /\ mode = "take"
  /\ quiz # None
  /\ Commit(mode, None, ~proctorEnabled)
  /\ UNCHANGED <<quiz, answers, score, grading, mounted, authToken, gradePc, gradeCtx, now,
                 serverVars, aiVars, pureVars>>

\* the "Proctored attempt mode" checkbox, rendered in take mode only (lines 802-815)
ToggleProctor ==
  /\ mounted
  /\ mode = "take"
  /\ quiz # None
  /\ Commit(mode, takeStartedAt, ~proctorEnabled)
  /\ UNCHANGED <<quiz, answers, score, grading, mounted, authToken, gradePc, gradeCtx, now,
                 serverVars, aiVars, pureVars>>

\* setAnswer from a take-mode input (lines 382-387, 837, 849, 860)
SetAnswer(i, value) ==
  /\ mounted
  /\ mode = "take"
  /\ quiz # None
  /\ i \in 1..Len(quiz[1].questions)
  /\ LET q == quiz[1].questions[i]
     IN  /\ (q.type = "mcq") = (value.t = "number")
         /\ answers' = Put(answers, q.id,
               [id |-> q.id, type |-> q.type, value |-> value,
                correct |-> Null, pointsAwarded |-> Num(0)])
  /\ Commit(mode, takeStartedAt, proctorEnabled)
  /\ UNCHANGED <<quiz, score, grading, mounted, authToken, gradePc, gradeCtx, now,
                 serverVars, aiVars, pureVars>>

\* the component is removed from the page: every effect's cleanup runs
Unmount ==
  /\ mounted
  /\ mounted' = FALSE
  /\ timers' = TimersAfter(mode, "unmounted", timers)
  /\ attached' = ProctorEffect(mode, proctorEnabled, "unmounted", FALSE, attached)
  /\ pending' = <<>>
  /\ UNCHANGED <<clientVars, authToken, gradePc, gradeCtx, now, serverVars, aiVars, pureVars, histVars>>

(***************************************************************************)
(* Datastore and analytics endpoints of the server (backend/index.js)      *)
(***************************************************************************)
Slots == {"c1", "c2"}
Idle  == [pc |-> "idle"]

MaxStoredAttempts == 300
MaxStoredProctorEvents == 500

NewAnalytics == [attempts |-> <<>>, questionsAsked |-> 0, proctorEvents |-> <<>>, badges |-> <<>>]

Request(kind, uid, body) ==
  [pc |-> "received", kind |-> kind, uid |-> uid, body |-> body, local |-> None, status |-> 0]

\* computeBadges(analytics)
computeBadges(analytics) ==
  LET n == Len(analytics.attempts)
      high == Cardinality({i \in 1..n : analytics.attempts[i].score >= 80})
  IN  (IF n >= 1 THEN <<"first-quiz-complete">> ELSE <<>>)
      \o (IF n >= 5 THEN <<"consistency-starter">> ELSE <<>>)
      \o (IF high >= 3 THEN <<"high-scorer">> ELSE <<>>)
      \o (IF analytics.questionsAsked >= 5 THEN <<"curious-learner">> ELSE <<>>)

\* a mutator that keeps the oldest attempts when the list is full
AttemptMutator_KeepsOldest(analytics, body, id) ==
  LET attempt == [id |-> id,
                  quizTitle |-> ToStr(OrElse(Get(body, "quizTitle"), Str("Quiz"))),
                  score |-> clampNumber(Get(body, "score"), 0, 100, 0),
                  totalQuestions |-> clampNumber(Get(body, "totalQuestions"), 1, 100, 1),
                  durationSec |-> clampNumber(Get(body, "durationSec"), 0, 14400, 0),
                  weakAreas |-> Take(StringList(Get(body, "weakAreas")), 8),
                  proctorSummary |-> OrElse(Get(body, "proctorSummary"), Null)]
      pushed == [analytics EXCEPT !.attempts = Take(Append(@, attempt), MaxStoredAttempts)]
  IN  [pushed EXCEPT !.badges = computeBadges(pushed)]

\* the mutator of POST /api/analytics/attempt on the user's analytics
AttemptMutator(analytics, body, id) ==
  LET attempt == [id |-> id,
                  quizTitle |-> ToStr(OrElse(Get(body, "quizTitle"), Str("Quiz"))),
                  score |-> clampNumber(Get(body, "score"), 0, 100, 0),
                  totalQuestions |-> clampNumber(Get(body, "totalQuestions"), 1, 100, 1),
                  durationSec |-> clampNumber(Get(body, "durationSec"), 0, 14400, 0),
                  weakAreas |-> Take(StringList(Get(body, "weakAreas")), 8),
                  proctorSummary |-> OrElse(Get(body, "proctorSummary"), Null)]
      pushed == [analytics EXCEPT !.attempts = LastN(Append(@, attempt), MaxStoredAttempts)]
  IN  [pushed EXCEPT !.badges = computeBadges(pushed)]

\* the mutator of POST /api/proctor/event on the user's analytics
EventMutator(analytics, body) ==
  [analytics EXCEPT !.proctorEvents =
     LastN(Append(@, [type |-> ToStr(Get(body, "type")),
                      detail |-> ToStr(OrElse(Get(body, "detail"), EmptyStr))]),
           MaxStoredProctorEvents)]

\* updateDb, first step: const db = await readDb()
ServerRead(s) ==
  /\ reqs[s].pc = "received"
  /\ reqs' = [reqs EXCEPT ![s].pc = "read", ![s].local = Some(db)]
  /\ UNCHANGED <<clientVars, runVars, db, writeQueue, queueRejected, uuid, aiVars, pureVars, histVars>>

\* updateDb, second step: the mutator runs on the copy that was read
ServerMutate(s) ==
  /\ reqs[s].pc = "read"
  /\ LET r == reqs[s]
         copy == r.local[1]
     IN  IF r.uid \notin DOMAIN copy
         THEN /\ reqs' = [reqs EXCEPT ![s].pc = "responded", ![s].status = 404]
              /\ UNCHANGED uuid
         ELSE IF r.kind = "attempt"
         THEN /\ reqs' = [reqs EXCEPT ![s].pc = "mutated",
                    ![s].local = Some([copy EXCEPT ![r.uid] = AttemptMutator(@, r.body, uuid + 1)])]
              /\ uuid' = uuid + 1
         ELSE /\ reqs' = [reqs EXCEPT ![s].pc = "mutated",
                    ![s].local = Some([copy EXCEPT ![r.uid] = EventMutator(@, r.body)])]
              /\ UNCHANGED uuid
  /\ UNCHANGED <<clientVars, runVars, db, writeQueue, queueRejected, aiVars, pureVars, histVars>>

\* writeDb: after ensureDb, the write is chained to dbWriteQueue
ServerEnqueue(s) ==
  /\ reqs[s].pc = "mutated"
  /\ writeQueue' = Append(writeQueue, [slot |-> s, data |-> reqs[s].local[1]])
  /\ reqs' = [reqs EXCEPT ![s].pc = "queued"]
  /\ UNCHANGED <<clientVars, runVars, db, queueRejected, uuid, aiVars, pureVars, histVars>>

\* the chained fs.writeFile at the head of dbWriteQueue replaces the file
ServerWrite ==
  /\ Len(writeQueue) > 0
  /\ ~queueRejected
  /\ db' = Head(writeQueue).data
  /\ writeQueue' = Tail(writeQueue)
  /\ reqs' = [reqs EXCEPT ![Head(writeQueue).slot].pc = "written"]
  /\ UNCHANGED <<clientVars, runVars, queueRejected, uuid, aiVars, pureVars, histVars>>

\* the chained fs.writeFile rejects (disk full, no permission): dbWriteQueue is now
\* a rejected promise, writeDb and updateDb throw, and the handler's catch answers
\* 500 SERVER_ERROR
ServerWriteFails ==
  /\ Len(writeQueue) > 0
  /\ ~queueRejected
  /\ queueRejected' = TRUE
  /\ writeQueue' = Tail(writeQueue)
  /\ reqs' = [reqs EXCEPT ![Head(writeQueue).slot].pc = "responded",
                          ![Head(writeQueue).slot].status = 500]
  /\ UNCHANGED <<clientVars, runVars, db, uuid, aiVars, pureVars, histVars>>

\* a write chained to a rejected dbWriteQueue: then() has no rejection handler, so
\* its callback is never called and the promise it returns is rejected as well
ServerWriteSkipped ==
  /\ Len(writeQueue) > 0
  /\ queueRejected
  /\ writeQueue' = Tail(writeQueue)
  /\ reqs' = [reqs EXCEPT ![Head(writeQueue).slot].pc = "responded",
                          ![Head(writeQueue).slot].status = 500]
  /\ UNCHANGED <<clientVars, runVars, db, queueRejected, uuid, aiVars, pureVars, histVars>>

\* res.json({ ok: true, ... })
ServerRespond(s) ==
  /\ reqs[s].pc = "written"
  /\ reqs' = [reqs EXCEPT ![s].pc = "responded", ![s].status = 200]
  /\ UNCHANGED <<clientVars, runVars, db, writeQueue, queueRejected, uuid, aiVars, pureVars, histVars>>

(***************************************************************************)
(* grade() and recordAttempt() of QuizManager.tsx: one click, then the     *)
(* continuations after each awaited request                                *)
(***************************************************************************)
IdleCtx == [from |-> "none", enabled |-> FALSE, events |-> <<>>, queue |-> <<>>,
            notified |-> FALSE]

\* the body of POST /api/analytics/attempt, from the values of the render in which
\* grade was clicked
AttemptBody(qz, scoreValue, weakAreas) ==
  [t |-> "object",
   quizTitle |-> Str(qz.title),
   score |-> Int2(scoreValue),
   totalQuestions |-> Int2(Len(qz.questions)),
   durationSec |-> Int2(timeElapsed),
   weakAreas |-> Arr([i \in 1..Len(weakAreas) |-> Str(weakAreas[i])]),
   proctorSummary |-> [t |-> "object", enabled |-> proctorEnabled,
                       warnings |-> proctorWarnings, events |-> proctorEvents]]

EventBody(ev) == [t |-> "object", type |-> Str(ev.type), detail |-> Str(ev.detail)]

\* a grade() that takes the proctoring warnings off the score
GradeClick_WarningPenalty(limit) ==
  /\ mounted
  /\ quiz # None
  /\ ~grading
  /\ authToken # None => uuid < limit
  /\ LET r == GradeResult(quiz[1], answers)
     IN  /\ answers' = r.nextAnswers
         /\ score' = Some(Max2(0, r.scoreValue - Effective.proctorWarnings))
         /\ gradePc' = "finally"
         /\ UNCHANGED reqs
  /\ grading' = TRUE
  /\ gradeCtx' = [IdleCtx EXCEPT !.from = mode]
  /\ Commit("results", takeStartedAt, proctorEnabled)
  /\ UNCHANGED <<quiz, mounted, authToken, now, db, writeQueue, queueRejected, uuid, aiVars, pureVars>>

\* "Grade" in the toolbar (line 606) or "Submit and Grade" in take mode (line 869):
\* grade() up to its first await
GradeClick(limit) ==
  /\ mounted
  /\ quiz # None
  /\ ~grading
  /\ authToken # None => uuid < limit
  /\ LET r == GradeResult(quiz[1], answers)
     IN  /\ answers' = r.nextAnswers
         /\ score' = Some(r.scoreValue)
         /\ IF authToken = None
            THEN /\ gradePc' = "finally"
                 /\ UNCHANGED reqs
            ELSE /\ gradePc' = "attempt"
                 /\ reqs' = [reqs EXCEPT !["c1"] =
                      Request("attempt", authToken[1],
                              AttemptBody(quiz[1], r.scoreValue, r.weakAreas))]
  /\ grading' = TRUE
  /\ gradeCtx' = IF authToken = None
                 THEN [IdleCtx EXCEPT !.from = mode]
                 ELSE [from |-> mode, enabled |-> proctorEnabled, events |-> proctorEvents,
                       queue |-> <<>>, notified |-> FALSE]
  /\ Commit("results", takeStartedAt, proctorEnabled)
  /\ UNCHANGED <<quiz, mounted, authToken, now, db, writeQueue, queueRejected, uuid, aiVars, pureVars>>

\* recordAttempt after `await fetch(.../api/analytics/attempt)`: the response is
\* not inspected
AttemptResponse ==
  /\ gradePc = "attempt"
  /\ reqs["c1"].pc = "responded"
  /\ LET important == LastN(gradeCtx.events, 10)
     IN  IF gradeCtx.enabled /\ Len(gradeCtx.events) > 0
         THEN /\ reqs' = [reqs EXCEPT !["c1"] =
                    Request("event", authToken[1], EventBody(Head(important)))]
              /\ gradeCtx' = [gradeCtx EXCEPT !.queue = Tail(important)]
              /\ gradePc' = "event"
         ELSE /\ reqs' = [reqs EXCEPT !["c1"] = Idle]
              /\ gradeCtx' = [gradeCtx EXCEPT !.notified = TRUE]
              /\ gradePc' = "finally"
  /\ UNCHANGED <<clientVars, mounted, authToken, timers, attached, pending, now,
                 db, writeQueue, queueRejected, uuid, aiVars, pureVars, histVars>>

\* recordAttempt after `await fetch(.../api/proctor/event)`: the next event, or the end
EventResponse ==
  /\ gradePc = "event"
  /\ reqs["c1"].pc = "responded"
  /\ IF Len(gradeCtx.queue) > 0
     THEN /\ reqs' = [reqs EXCEPT !["c1"] =
                Request("event", authToken[1], EventBody(Head(gradeCtx.queue)))]
          /\ gradeCtx' = [gradeCtx EXCEPT !.queue = Tail(@)]
          /\ UNCHANGED gradePc
     ELSE /\ reqs' = [reqs EXCEPT !["c1"] = Idle]
          /\ gradeCtx' = [gradeCtx EXCEPT !.notified = TRUE]
          /\ gradePc' = "finally"
  /\ UNCHANGED <<clientVars, mounted, authToken, timers, attached, pending, now,
                 db, writeQueue, queueRejected, uuid, aiVars, pureVars, histVars>>

\* a grade() whose finally block is left out
GradeFinally_KeepsGrading ==
  /\ gradePc = "finally"
  /\ gradePc' = "idle"
  /\ UNCHANGED <<grading, mode, proctorEnabled, takeStartedAt, timeElapsed,
                 proctorEvents, proctorWarnings, captured, timers, attached, pending>>
  /\ UNCHANGED <<quiz, answers, score, mounted, authToken, gradeCtx, now,
                 serverVars, aiVars, pureVars>>

\* finally { setGrading(false) }
GradeFinally ==
  /\ gradePc = "finally"
  /\ gradePc' = "idle"
  /\ IF mounted
     THEN /\ grading' = FALSE
          /\ Commit(mode, takeStartedAt, proctorEnabled)
     ELSE UNCHANGED <<grading, mode, proctorEnabled, takeStartedAt, timeElapsed,
                      proctorEvents, proctorWarnings, captured, timers, attached, pending>>
  /\ UNCHANGED <<quiz, answers, score, mounted, authToken, gradeCtx, now,
                 serverVars, aiVars, pureVars>>

(***************************************************************************)
(* The session: one learner, the sample quiz, one registered user          *)
(***************************************************************************)
\* answers a learner may enter
McqChoices == {Int2(1)}
TextChoices ==
  {Str(<<"A", "d", "d", "s", " ", "t", "w", "o", " ", "n", "u", "m", "b", "e", "r", "s">>)}

\* busyGenerating and generateError of QuizManager, and where generateQuizWithAI is
IdleGen == [pc |-> "idle", busyGenerating |-> FALSE, generateError |-> "", clicks |-> 0,
            payload |-> None]

\* the handler of POST /api/quiz/generate and its callModel invocation, at rest;
\* apiKey is process.env.GROQ_API_KEY being set
IdleCall == [pc |-> "idle", apiKey |-> TRUE, topic |-> "", count |-> 0, timer |-> FALSE,
             aborted |-> FALSE, sent |-> 0, ok |-> FALSE, result |-> None,
             response |-> None]

InitClient ==
  /\ gen = IdleGen
  /\ quiz = Some(createSampleQuiz)
  /\ mode = "editor"
  /\ answers = <<>>
  /\ score = None
  /\ grading = FALSE
  /\ proctorEnabled = FALSE
  /\ proctorWarnings = 0
  /\ proctorEvents = <<>>
  /\ takeStartedAt = None
  /\ timeElapsed = 0
  /\ mounted = TRUE
  /\ timers = 0
  /\ attached = {}
  /\ pending = <<>>
  /\ gradePc = "idle"
  /\ gradeCtx = IdleCtx
  /\ now = 1
  /\ captured = <<>>

InitServer ==
  /\ call = IdleCall
  /\ db = [u \in {"u1"} |-> NewAnalytics]
  /\ writeQueue = <<>>
  /\ queueRejected = FALSE
  /\ reqs = [s \in Slots |-> Idle]
  /\ uuid = 0

InitPure ==
  /\ rawIn = None
  /\ normOut = None

Init ==
  /\ InitClient
  /\ authToken \in {None, Some("u1")}
  /\ InitServer
  /\ InitPure

MaxAttempts == 2

\* The session with its recording: no proctoring signals, so that the stored
\* attempts stay few.
Answer == \E v \in McqChoices : SetAnswer(1, v)
Grade == GradeClick(MaxAttempts)
Server == ServerRead("c1") \/ ServerMutate("c1") \/ ServerEnqueue("c1") \/ ServerWrite
            \/ ServerRespond("c1")

Next ==
  \/ TakeQuiz
  \/ InstructorEditor
  \/ Answer
  \/ Grade
  \/ AttemptResponse
  \/ GradeFinally
  \/ Server

Spec == Init /\ [][Next]_vars

\* C1: a grade request made in 'editor' by a session that has never entered taking
\* is rejected: the mode stays 'editor', the score stays unset and no Attempt is
\* produced or sent.
C1_GradeOnlyFromTaking ==
  takeStartedAt = None =>
    /\ mode = "editor"
    /\ score = None
    /\ gradePc = "idle"
    /\ reqs["c1"] = Idle

\* C7: on a submit from taking the Attempt is persisted before the session leaves
\* 'take': while the attempt request of such a submit has not been written to the
\* datastore, the mode is still 'take'.
C7_PersistedBeforeLeavingTake ==
  (/\ gradePc = "attempt"
   /\ gradeCtx.from = "take"
   /\ reqs["c1"].pc \in {"received", "read", "mutated", "queued"}) => mode = "take"

\* C8: while the session is graded no operation runs grading again, changes the
\* answers or the score, or sends a further Attempt.
C8_GradedIsQuiescent ==
  [][(mode = "results" /\ mode' = "results") =>
       /\ ~(gradePc = "idle" /\ gradePc' # "idle")
       /\ answers' = answers
       /\ score' = score]_vars

(***************************************************************************)
(* The collector and the timer, for a learner who is not signed in (no     *)
(* request leaves the client)                                              *)
(***************************************************************************)
MaxSignals == 2
MaxTime == 1
MaxPending == 4

InitProctor ==
  /\ InitClient
  /\ authToken = None
  /\ InitServer
  /\ InitPure

Signal == \E sig \in SignalInputs : OnSignal(sig, MaxSignals, MaxPending)
Tick == OnTick(MaxTime, MaxPending)

NextProctor ==
  \/ TakeQuiz
  \/ InstructorEditor
  \/ ToggleProctor
  \/ Answer
  \/ Signal
  \/ Tick
  \/ Render
  \/ Grade
  \/ GradeFinally
  \/ Unmount

SpecProctor == InitProctor /\ [][NextProctor]_vars

FreshAttempt ==
  /\ mode = "take"
  /\ timeElapsed = 0
  /\ answers = <<>>
  /\ score = None
  /\ proctorEvents = <<>>
  /\ proctorWarnings = 0
  /\ pending = <<>>

\* C3: every "Take Quiz", whether pressed while authoring, while graded or while
\* already taking, begins a fresh attempt: elapsed time 0, no answers, no score,
\* an empty proctoring log and a warning count of 0.
C3_TakeQuizStartsFresh == [][TakeQuiz => FreshAttempt']_vars

\* "Take Quiz" pressed on a graded, proctored attempt whose grade() has not yet
\* reached its finally block: the new attempt is fresh
C3_Witness ==
  /\ FreshAttempt
  /\ grading
  /\ gradeCtx.from = "take"
  /\ proctorEnabled
  /\ attached = Observers

ObserversWanted == mounted /\ mode = "take" /\ proctorEnabled

\* C4: the five observers are attached exactly while the mode is 'take' and
\* proctoring is enabled; in every other state all of them are detached, and a step
\* taken there captures no signal and adds nothing to the log or the warning count.
C4_ObserversExactlyWhileProctoredTaking ==
  /\ [](attached = IF ObserversWanted THEN Observers ELSE {})
  /\ [][~ObserversWanted =>
          /\ captured' \in {captured, <<>>}
          /\ Effective.proctorWarnings' \in {Effective.proctorWarnings, 0}
          /\ Effective.proctorEvents' \in {Effective.proctorEvents, <<>>}]_vars

\* a proctored attempt that captured signals has been graded: nothing is attached
C4_Witness ==
  /\ mode = "results"
  /\ proctorEnabled
  /\ proctorWarnings > 0
  /\ attached = {}

(***************************************************************************)
(* A long burst of signals in one attempt: past the cap of the log         *)
(***************************************************************************)
MaxBurst == 52
MaxMixed == 1

\* any signal opens the burst, window blurs continue it
BurstSignal ==
  \E sig \in SignalInputs :
    /\ sig.kind # "blur" => Len(captured) < MaxMixed
    /\ OnSignal(sig, MaxBurst, MaxPending)

NextCap ==
  \/ TakeQuiz
  \/ ToggleProctor
  \/ BurstSignal
  \/ Render

SpecCap == InitProctor /\ [][NextCap]_vars

\* C5: after n captured signals the warning count is n and the log holds the
\* min(n, 50) most recent events in capture order; the rendered log never exceeds 50
\* entries and its length is min(warnings, 50).
C5_WarningsCountAndCappedLog ==
  /\ Len(proctorEvents) <= ProctorLogCap
  /\ Len(proctorEvents) = Min2(proctorWarnings, ProctorLogCap)
  /\ Effective.proctorWarnings = Len(captured)
  /\ Effective.proctorEvents = LastN(captured, ProctorLogCap)

\* more than 50 signals were captured and rendered
C5_Witness ==
  /\ Len(captured) > ProctorLogCap
  /\ pending = <<>>
  /\ proctorWarnings = Len(captured)
  /\ Len(proctorEvents) = ProctorLogCap

\* C6: a callback that runs while the updates of earlier callbacks have not been
\* rendered yet loses nothing: it adds exactly one warning and its own event to
\* what those callbacks scheduled (the eviction of the cap apart), and the render
\* shows all of it.
C6_BurstLosesNothing ==
  /\ [][(pending # <<>> /\ Len(captured') = Len(captured) + 1) =>
          /\ Effective.proctorWarnings' = Effective.proctorWarnings + 1
          /\ Effective.proctorEvents' =
               LastN(Append(Effective.proctorEvents, captured'[Len(captured')]),
                     ProctorLogCap)]_vars
  /\ [][Render =>
          /\ proctorWarnings' = Effective.proctorWarnings
          /\ proctorEvents' = Effective.proctorEvents]_vars

\* two callbacks ran without a render between them, past the cap of the log
C6_Witness ==
  /\ Len(pending) = 4
  /\ Len(captured) > ProctorLogCap
  /\ Effective.proctorWarnings = proctorWarnings + 2

(***************************************************************************)
(* The datastore under two clients of one user: attempt requests arrive at *)
(* the server while earlier ones are between their read and their write    *)
(***************************************************************************)
MaxRequests == 3

\* request bodies of POST /api/analytics/attempt
AttemptInputs ==
  {[t |-> "object", quizTitle |-> Str("Quiz"), score |-> Int2(sc),
    totalQuestions |-> Int2(3), durationSec |-> Int2(10), weakAreas |-> Arr(<<>>)] :
     sc \in {50, 90}}

\* POST /api/analytics/attempt reaches its handler, authenticated as uid; the slot
\* is free once the earlier response has been sent
ReceiveAttempt(s, uid, body, limit) ==
  /\ reqs[s].pc \in {"idle", "responded"}
  /\ uuid + Cardinality({x \in Slots : reqs[x].pc \in {"received", "read"}}) < limit
  /\ reqs' = [reqs EXCEPT ![s] = Request("attempt", uid, body)]
  /\ UNCHANGED <<clientVars, runVars, db, writeQueue, queueRejected, uuid, aiVars, pureVars, histVars>>

Receive == \E s \in Slots, body \in AttemptInputs : ReceiveAttempt(s, "u1", body, MaxRequests)
Read == \E s \in Slots : ServerRead(s)
Mutate == \E s \in Slots : ServerMutate(s)
Enqueue == \E s \in Slots : ServerEnqueue(s)
Respond == \E s \in Slots : ServerRespond(s)

NextDb ==
  \/ Receive
  \/ Read
  \/ Mutate
  \/ Enqueue
  \/ ServerWrite
  \/ Respond

SpecDb == Init /\ [][NextDb]_vars

\* the attempt that the request in slot s appended is in the stored record
AttemptStored(s) ==
  LET r == reqs[s]
      mine == r.local[1][r.uid].attempts
      kept == db[r.uid].attempts
  IN  \E i \in 1..Len(kept) : kept[i].id = mine[Len(mine)].id

\* C2: when two attempt-recording requests of one user are in progress at the same
\* time, the persisted record of the user contains both attempts: no request that
\* was answered with success is missing from the stored record.
C2_ConcurrentAttemptsBothPersisted ==
  \A s \in Slots :
    (reqs[s].pc = "responded" /\ reqs[s].status = 200) => AttemptStored(s)

(***************************************************************************)
(* The instructor editor: upload, add, update and remove questions         *)
(***************************************************************************)
MaxQuestions == 3
MaxNow == 3

\* parsed contents of an uploaded file
UploadInputs ==
  {[t |-> "object", title |-> Str("Uploaded"), questions |-> Arr(<<>>)],
   [t |-> "object", title |-> Str("Uploaded"),
    questions |-> Arr(<<[t |-> "object", id |-> Str("u1"), type |-> Str("mcq"),
                         correctIndex |-> Int2(2)]>>)],
   [t |-> "object", questions |-> Arr(<<>>)],
   [t |-> "object", title |-> Str("Uploaded"), questions |-> Str("none")]}

\* a file whose text JSON.parse does not accept
NotJson == [t |-> "invalid"]

\* a shape check that looks at the title only
UploadRejected_TitleOnly(parsed) ==
  parsed.t = "invalid" \/ ~Truthy(Get(parsed, "title"))

\* the upload is refused: JSON.parse throws (line 312, caught in line 321), or the
\* shape check of line 313 fails
UploadRejected(parsed) ==
  \/ parsed.t = "invalid"
  \/ ~Truthy(Get(parsed, "title"))
  \/ Get(parsed, "questions").t # "array"


\* a reader.onload that installs the quiz and leaves mode, answers and score
handleFileUpload_KeepsSession(parsed) ==
  /\ mounted
  /\ IF UploadRejected(parsed)
     THEN UNCHANGED <<clientVars, timers, attached, pending, captured>>
     ELSE /\ quiz' = Some(normalizeQuiz(parsed))
          /\ Commit(mode, takeStartedAt, proctorEnabled)
          /\ UNCHANGED <<answers, score, grading>>
  /\ UNCHANGED <<mounted, authToken, gradePc, gradeCtx, now, serverVars, aiVars, normOut>>

\* reader.onload of handleFileUpload (lines 310-324)
handleFileUpload(parsed) ==
  /\ mounted
  /\ IF UploadRejected(parsed)
     THEN UNCHANGED <<clientVars, timers, attached, pending, captured>>
     ELSE /\ quiz' = Some(normalizeQuiz(parsed))
          /\ answers' = <<>>
          /\ score' = None
          /\ Commit("editor", takeStartedAt, proctorEnabled)
          /\ UNCHANGED grading
  /\ UNCHANGED <<mounted, authToken, gradePc, gradeCtx, now, serverVars, aiVars, normOut>>

\* the question addQuestion(type) builds (lines 331-361)
NewQuestion(type, id) ==
  CASE type = "mcq" ->
         [id |-> id, type |-> "mcq", q |-> "New MCQ question",
          options |-> <<"Option 1", "Option 2", "Option 3", "Option 4">>,
          correctIndex |-> Int2(0), level |-> "medium", points |-> Int2(pointsForLevel("medium"))]
    [] type = "code" ->
         [id |-> id, type |-> "code", q |-> "Write code to solve the task.",
          level |-> "medium", points |-> Int2(pointsForLevel("medium")),
          starterCode |-> "", expectedKeyPoints |-> <<>>]
    [] OTHER ->
         [id |-> id, type |-> "text", q |-> "Describe your answer.",
          level |-> "medium", points |-> Int2(pointsForLevel("medium")), keywords |-> <<>>]

\* an editor button is on the page: {mode === "editor" && quiz && ...} (line 689)
EditorShown == mounted /\ mode = "editor" /\ quiz # None

\* "Add MCQ" / "Add Text" / "Add Code" (lines 705-707); the clock has advanced by
\* the next click
addQuestion(type, limit) ==
  /\ EditorShown
  /\ Len(quiz[1].questions) < limit
  /\ now < MaxNow
  /\ quiz' = Some([quiz[1] EXCEPT
                     !.questions = Append(@, NewQuestion(type, "q" \o ToString(now)))])
  /\ now' = now + 1
  /\ UNCHANGED <<mode, answers, score, grading, proctorEnabled, proctorWarnings,
                 proctorEvents, takeStartedAt, timeElapsed, mounted, authToken, timers,
                 attached, pending, gradePc, gradeCtx, serverVars, aiVars, pureVars, histVars>>

\* updateQuestion(updated) (lines 369-375)
updateQuestion(updated) ==
  /\ EditorShown
  /\ quiz' = Some([quiz[1] EXCEPT
                     !.questions = [i \in 1..Len(@) |->
                                      IF @[i].id = updated.id THEN updated ELSE @[i]]])
  /\ UNCHANGED <<mode, answers, score, grading, proctorEnabled, proctorWarnings,
                 proctorEvents, takeStartedAt, timeElapsed, runVars, serverVars, aiVars, pureVars,
                 histVars>>

\* the level select of a question card: setQuestionLevel (lines 389-391, 718)
setQuestionLevel(i, level) ==
  /\ quiz # None
  /\ i \in 1..Len(quiz[1].questions)
  /\ updateQuestion([quiz[1].questions[i] EXCEPT
                       !.level = level, !.points = Int2(pointsForLevel(level))])

\* the points input of a question card (lines 724-731):
\* points: Math.max(1, Math.min(10, Number(e.target.value) || 1))
setQuestionPoints(i, value) ==
  /\ quiz # None
  /\ i \in 1..Len(quiz[1].questions)
  /\ LET n == OrElse(ToNumber(value), Int2(1))
     IN  updateQuestion([quiz[1].questions[i] EXCEPT
                           !.points = Num(Max2(2, Min2(20, n.h)))])

\* "Remove" on a question card: removeQuestion(id) (lines 377-380, 732)
removeQuestion(id) ==
  /\ EditorShown
  /\ quiz' = Some([quiz[1] EXCEPT !.questions = SelectSeq(@, LAMBDA q : q.id # id)])
  /\ UNCHANGED <<mode, answers, score, grading, proctorEnabled, proctorWarnings,
                 proctorEvents, takeStartedAt, timeElapsed, runVars, serverVars, aiVars, pureVars,
                 histVars>>

Upload == \E parsed \in UploadInputs : handleFileUpload(parsed) /\ UNCHANGED rawIn
Add == \E type \in {"mcq", "text", "code"} : addQuestion(type, MaxQuestions)
SetLevel == \E i \in 1..MaxQuestions, level \in {"easy", "hard"} : setQuestionLevel(i, level)
\* what a user can type into the points input
PointsInputs == {NumStr("2.5", 5), NumStr("20", 40), EmptyStr}
SetPoints == \E value \in PointsInputs : setQuestionPoints(1, value)
Remove ==
  /\ quiz # None
  /\ \E i \in 1..Len(quiz[1].questions) : removeQuestion(quiz[1].questions[i].id)

NextEditor ==
  \/ Upload
  \/ Add
  \/ SetLevel
  \/ SetPoints
  \/ Remove
  \/ TakeQuiz
  \/ InstructorEditor

SpecEditor == InitProctor /\ [][NextEditor]_vars

\* C9: a loaded quiz has at least one question: no sequence of uploads, added,
\* updated and removed questions leaves the quiz without questions.
C9_QuizNeverEmpty == quiz # None => Len(quiz[1].questions) >= 1

(***************************************************************************)
(* The question normalizers of client and server on raw questions          *)
(***************************************************************************)
RawTypes == {Str("mcq"), Str("text"), Undef}
RawCorrectIndex ==
  {Undef, Null, Int2(0), Int2(2), Num(3), Int2(7), Int2(-1), NaN, PosInf,
   NumStr("2", 4), Str("b"), Bool(TRUE)}
RawOptions ==
  {Undef, Arr(<<>>), Str("abcd"),
   Arr(<<Str("a"), EmptyStr, Null, Str("b")>>),
   Arr(<<Str("a"), Str("b"), Str("c"), Str("d"), Str("e")>>)}
RawPoints ==
  {Undef, Null, EmptyStr, Int2(0), Int2(5), Int2(50), Num(5), Num(-3), PosInf,
   NumStr("7", 14), Str("many")}
RawLevels == {Undef, Str("easy"), Str("Hard"), Str("expert")}
RawQuestions ==
  {Undef, Null} \cup
  {[t |-> "object", type |-> ty, correctIndex |-> ci, options |-> o] :
     ty \in RawTypes, ci \in RawCorrectIndex, o \in RawOptions} \cup
  {[t |-> "object", type |-> ty, points |-> p, level |-> l] :
     ty \in {Str("mcq"), Str("code")}, p \in RawPoints, l \in RawLevels}
MaxIndex == 1

InitNorm ==
  /\ InitClient
  /\ authToken = None
  /\ InitServer
  /\ rawIn \in {Some([raw |-> r, index |-> i]) : r \in RawQuestions, i \in 0..MaxIndex}
  /\ normOut = None

\* the client normalizes the raw question
NormalizeClient ==
  /\ normOut = None
  /\ normOut' = Some([by |-> "client", q |-> normalizeQuestion(rawIn[1].raw, rawIn[1].index)])
  /\ UNCHANGED <<clientVars, runVars, serverVars, aiVars, rawIn, histVars>>

\* the server normalizes the raw question
NormalizeServer ==
  /\ normOut = None
  /\ normOut' = Some([by |-> "server",
                      q |-> serverNormalizeQuestion(rawIn[1].raw, rawIn[1].index)])
  /\ UNCHANGED <<clientVars, runVars, serverVars, aiVars, rawIn, histVars>>

NextNorm ==
  \/ NormalizeClient
  \/ NormalizeServer

SpecNorm == InitNorm /\ [][NextNorm]_vars

\* C11: every normalized question has integer points with 1 <= points <= 10, for
\* any input points value, from the client normalizer and from the server
\* normalizer.
C11_PointsWithinOneToTen ==
  normOut # None => normOut[1].q.points \in {Int2(i) : i \in 1..10}

WholeIndexes == {Int2(i) : i \in 0..3}

\* C10: every MCQ that the normalizeQuestion of the client or of the server
\* returns has exactly 4 options and a correctIndex in {0, 1, 2, 3}, whatever the
\* input was.
C10_McqHasFourOptionsAndValidIndex ==
  normOut # None =>
    LET q == normOut[1].q
    IN  IF normOut[1].by = "client"
        THEN q.type = "mcq" => (Len(q.options) = 4 /\ q.correctIndex \in WholeIndexes)
        ELSE q.type = Str("mcq") =>
               (Len(q.options.a) = 4 /\ q.correctIndex \in WholeIndexes)

(***************************************************************************)
(* The quiz normalizers of client and server on raw quizzes, applied once  *)
(* and applied again to their own result                                   *)
(***************************************************************************)
MaxCount == 2
MaxRawQuestions == 2

RawQuizQuestions ==
  {Undef,
   [t |-> "object", type |-> Str("mcq"), id |-> Int2(7), correctIndex |-> Num(3),
    options |-> Arr(<<Str("a"), Str("b"), Str("c"), Str("d"), Str("e")>>)],
   [t |-> "object", type |-> Str("text"), id |-> Arr(<<>>), points |-> Int2(50),
    keywords |-> Arr(<<Str("a"), Null>>)],
   [t |-> "object", type |-> Str("code"), q |-> Arr(<<>>), level |-> Str("Hard")]}

RawQuestionLists ==
  UNION {[1..n -> RawQuizQuestions] : n \in 0..MaxRawQuestions}

RawQuizzes ==
  {Undef} \cup
  {[t |-> "object", title |-> ti, questions |-> qs] :
     ti \in {Undef, Str("Loops"), EmptyStr, Arr(<<>>)},
     qs \in {Undef} \cup {Arr(l) : l \in RawQuestionLists}}

\* a Question of the client, as the value normalizeQuestion reads when it is passed in
QuestionAsInput(q) ==
  LET strs(l) == Arr([i \in 1..Len(l) |-> Str(l[i])])
      base == [t |-> "object", id |-> Str(q.id), type |-> Str(q.type), q |-> Str(q.q),
               level |-> Str(q.level), points |-> q.points]
  IN  CASE q.type = "mcq" ->
             [t |-> "object", id |-> base.id, type |-> base.type, q |-> base.q,
              level |-> base.level, points |-> base.points,
              options |-> strs(q.options), correctIndex |-> q.correctIndex]
        [] q.type = "code" ->
             [t |-> "object", id |-> base.id, type |-> base.type, q |-> base.q,
              level |-> base.level, points |-> base.points,
              starterCode |-> Str(q.starterCode),
              expectedKeyPoints |-> strs(q.expectedKeyPoints)]
        [] OTHER ->
             [t |-> "object", id |-> base.id, type |-> base.type, q |-> base.q,
              level |-> base.level, points |-> base.points, keywords |-> strs(q.keywords)]

\* a Quiz of the client, as the value normalizeQuiz reads when it is passed in
QuizAsInput(qz) ==
  [t |-> "object", title |-> Str(qz.title), description |-> Str(qz.description),
   questions |-> Arr([i \in 1..Len(qz.questions) |-> QuestionAsInput(qz.questions[i])])]

InitQuiz ==
  /\ InitClient
  /\ authToken = None
  /\ InitServer
  /\ rawIn \in {Some([raw |-> r, count |-> c]) : r \in RawQuizzes, c \in 1..MaxCount}
  /\ normOut = None

\* normalizeQuiz of the client, and again on its result
NormalizeQuizClient ==
  /\ normOut = None
  /\ LET once == normalizeQuiz(rawIn[1].raw)
     IN  normOut' = Some([by |-> "client", once |-> once,
                          twice |-> normalizeQuiz(QuizAsInput(once))])
  /\ UNCHANGED <<clientVars, runVars, serverVars, aiVars, rawIn, histVars>>

\* normalizeQuiz of the server, and again on its result
NormalizeQuizServer ==
  /\ normOut = None
  /\ LET once == serverNormalizeQuiz(rawIn[1].raw, rawIn[1].count)
     IN  normOut' = Some([by |-> "server", once |-> once,
                          twice |-> IF once.threw THEN once
                                    ELSE serverNormalizeQuiz(once.quiz, rawIn[1].count)])
  /\ UNCHANGED <<clientVars, runVars, serverVars, aiVars, rawIn, histVars>>

NextQuiz ==
  \/ NormalizeQuizClient
  \/ NormalizeQuizServer

SpecQuiz == InitQuiz /\ [][NextQuiz]_vars

\* C12: normalization is idempotent: normalizing the result of normalizing x gives
\* the same quiz as normalizing x once, for any input x.
C12_NormalizationIdempotent ==
  normOut # None => normOut[1].twice = normOut[1].once

(***************************************************************************)
(* Submit and Grade on quizzes of one or two questions with every          *)
(* combination of answers, for a signed-in learner                         *)
(***************************************************************************)
MaxKeywords == 2

\* keyword lists of a text question / key points of a code question
KeywordLists ==
  LET words == <<(<<"A", "b">>), (<<"c", "d">>), (<<"e">>)>>
  IN  {SubSeq(words, 1, n) : n \in 0..MaxKeywords}

\* questions as the normalizer and the editor leave them; 2.5 points come from the
\* points input
GradeQuestions ==
  {[id |-> "q1", type |-> "mcq", q |-> "Q", level |-> "easy", points |-> p,
    options |-> <<"a", "b", "c", "d">>, correctIndex |-> Int2(1)] :
     p \in {Int2(1), Int2(3)}} \cup
  {[id |-> "q2", type |-> "mcq", q |-> "Q", level |-> "easy", points |-> Int2(2),
    options |-> <<"a", "b", "c", "d">>, correctIndex |-> Int2(0)]} \cup
  {[id |-> "t1", type |-> "text", q |-> "Q", level |-> "medium", points |-> p,
    keywords |-> k] : p \in {Int2(1), Int2(3), Num(5)}, k \in KeywordLists} \cup
  {[id |-> "t2", type |-> "text", q |-> "Q", level |-> "medium", points |-> Int2(2),
    keywords |-> <<>>]} \cup
  {[id |-> "c1", type |-> "code", q |-> "Q", level |-> "hard", points |-> Int2(3),
    starterCode |-> "", expectedKeyPoints |-> k] : k \in KeywordLists}

GradeQuizzes ==
  {[title |-> "Quiz", description |-> "", questions |-> qs] :
     qs \in {<<a>> : a \in GradeQuestions} \cup
            {pair \in {<<a, b>> : a \in GradeQuestions, b \in GradeQuestions} :
               pair[1].id # pair[2].id}}

\* what a learner can have entered for a question: nothing, or a value
AnswerChoices(q) ==
  {None} \cup
  {Some(v) : v \in IF q.type = "mcq" THEN {Int2(0), Int2(1)}
                   ELSE {Str(<<>>), Str(<<"x", "a", "B", "y">>),
                         Str(<<"a", "b", "c", "d", "e">>)}}

\* the answers state after the setAnswer calls that entered the chosen values
AnswersOf(qz, choice) ==
  [id \in {qz.questions[i].id : i \in {j \in 1..Len(qz.questions) : choice[j] # None}} |->
     LET i == CHOOSE j \in 1..Len(qz.questions) : qz.questions[j].id = id
     IN  [id |-> id, type |-> qz.questions[i].type, value |-> choice[i][1],
          correct |-> Null, pointsAwarded |-> Num(0)]]

\* a learner in take mode with the answers entered; rawIn keeps what was submitted
InitGrade ==
  /\ \E qz \in GradeQuizzes :
       \E choice \in {c \in [1..Len(qz.questions) -> {None} \cup
                                {Some(v) : v \in {Int2(0), Int2(1), Str(<<>>),
                                                  Str(<<"x", "a", "B", "y">>),
                                                  Str(<<"a", "b", "c", "d", "e">>)}}] :
                        \A i \in 1..Len(qz.questions) :
                          c[i] \in AnswerChoices(qz.questions[i])} :
         /\ quiz = Some(qz)
         /\ answers = AnswersOf(qz, choice)
         /\ rawIn = Some(AnswersOf(qz, choice))
  /\ gen = IdleGen
  /\ mode = "take"
  /\ score = None
  /\ grading = FALSE
  /\ proctorEnabled = FALSE
  /\ proctorWarnings = 0
  /\ proctorEvents = <<>>
  /\ takeStartedAt = Some(1)
  /\ timeElapsed = 0
  /\ mounted = TRUE
  /\ authToken = Some("u1")
  /\ timers = 1
  /\ attached = {}
  /\ pending = <<>>
  /\ gradePc = "idle"
  /\ gradeCtx = IdleCtx
  /\ now = 1
  /\ captured = <<>>
  /\ InitServer
  /\ normOut = None

NextGrade ==
  \/ GradeClick(1)
  \/ Server
  \/ AttemptResponse
  \/ GradeFinally

SpecGrade == InitGrade /\ [][NextGrade]_vars

\* the session has been graded
Graded == mode = "results" /\ score # None

\* the sum of f over the questions, in halves
RECURSIVE SumOver(_, _)
SumOver(qs, f) == IF Len(qs) = 0 THEN 0 ELSE f[Head(qs).id] + SumOver(Tail(qs), f)

\* C13: score = round(100 * earned / total), with total the sum of the points of
\* all questions and earned the sum of pointsAwarded, and 0 when total = 0; for
\* every quiz and every set of answers earned <= total and the score is an integer
\* in 0..100.
C13_ScoreIsRoundedPercentage ==
  Graded =>
    LET qs == quiz[1].questions
        total == SumOver(qs, [id \in {qs[i].id : i \in 1..Len(qs)} |->
                                (CHOOSE q \in {qs[i] : i \in 1..Len(qs)} : q.id = id).points.h])
        earned == SumOver(qs, [id \in DOMAIN answers |-> answers[id].pointsAwarded.h])
    IN  /\ earned <= total
        /\ score[1] \in 0..100
        /\ IF total = 0 THEN score[1] = 0
           ELSE /\ 2 * total * score[1] <= 200 * earned + total
                /\ 200 * earned + total < 2 * total * (score[1] + 1)

\* the value the learner submitted for question id, undefined when nothing was entered
Submitted(id) == IF id \in DOMAIN rawIn[1] THEN rawIn[1][id].value ELSE Undef

\* C14: for every MCQ question grade sets correct = true and pointsAwarded = points
\* exactly when the submitted value is a number equal to correctIndex, and
\* correct = false with pointsAwarded = 0 otherwise (a missing selection included);
\* a one-question MCQ quiz scores 100 on the correct index and 0 otherwise.
C14_McqAllOrNothing ==
  Graded =>
    LET qs == quiz[1].questions
    IN  \A i \in 1..Len(qs) :
          qs[i].type = "mcq" =>
            LET hit == Submitted(qs[i].id).t = "number"
                       /\ Submitted(qs[i].id) = qs[i].correctIndex
                a   == answers[qs[i].id]
            IN  /\ a.correct = Bool(hit)
                /\ a.pointsAwarded = (IF hit THEN qs[i].points ELSE Num(0))
                /\ Len(qs) = 1 => score = Some(IF hit THEN 100 ELSE 0)

\* a one-question MCQ quiz answered with the correct index has been graded 100,
\* with the full three points
C14_Witness ==
  /\ Graded
  /\ Len(quiz[1].questions) = 1
  /\ quiz[1].questions[1].type = "mcq"
  /\ Submitted("q1") = quiz[1].questions[1].correctIndex
  /\ answers["q1"].correct = Bool(TRUE)
  /\ answers["q1"].pointsAwarded = Int2(3)
  /\ score = Some(100)

\* the keywords of a text question, the expected key points of a code question
PartsOf(q) == IF q.type = "text" THEN q.keywords ELSE q.expectedKeyPoints

\* the number of listed entries whose lower-cased form is a substring of the
\* lower-cased submitted answer
Matched(q) ==
  Cardinality({i \in 1..Len(PartsOf(q)) :
                 Includes(ToLowerCase(AnswerText(Submitted(q.id))),
                          ToLowerCase(PartsOf(q)[i]))})

\* C15: a text question with a non-empty keywords list, and a code question with a
\* non-empty expectedKeyPoints list, is given
\* pointsAwarded = round(min(1, matched / count) * points) and
\* correct = (pointsAwarded = points); round(x) is the integer r with
\* r <= x + 1/2 < r + 1.
C15_FractionalCredit ==
  Graded =>
    LET qs == quiz[1].questions
    IN  \A i \in 1..Len(qs) :
          (qs[i].type \in {"text", "code"} /\ Len(PartsOf(qs[i])) > 0) =>
            LET c == Len(PartsOf(qs[i]))
                m == IF Matched(qs[i]) < c THEN Matched(qs[i]) ELSE c
                h == qs[i].points.h
                a == answers[qs[i].id]
            IN  /\ a.pointsAwarded.t = "number"
                /\ \E r \in 0..10 :
                     /\ a.pointsAwarded = Int2(r)
                     /\ 2 * c * r <= m * h + c
                     /\ m * h + c < 2 * c * (r + 1)
                /\ a.correct = Bool(a.pointsAwarded = qs[i].points)

\* a text question worth 3 points with two keywords, one of which is in the answer,
\* has been graded round(0.5 * 3) = 2 points and is not correct
C15_Witness ==
  /\ Graded
  /\ \E i \in 1..Len(quiz[1].questions) :
       LET q == quiz[1].questions[i]
       IN  /\ q.type = "text"
           /\ q.points = Int2(3)
           /\ Len(q.keywords) = 2
           /\ Matched(q) = 1
           /\ answers[q.id].pointsAwarded = Int2(2)
           /\ answers[q.id].correct = Bool(FALSE)

\* a text question without keywords or a code question without expected key points
Ungradable(q) == q.type \in {"text", "code"} /\ Len(PartsOf(q)) = 0

\* the weak areas of the attempts the server has stored for the learner
RecordedWeakAreas == {db["u1"].attempts[i].weakAreas : i \in 1..Len(db["u1"].attempts)}

\* C16: the grading pass never aborts: once grade has started, the session has a
\* score and is in the graded state; every ungradable question has correct = null
\* and pointsAwarded = 0 and its tag is in the weak areas of the recorded attempt;
\* every other question has been graded correct or not correct.
C16_GradingNeverAborts ==
  /\ gradePc # "idle" => Graded
  /\ Graded =>
       LET qs == quiz[1].questions
       IN  \A i \in 1..Len(qs) :
             /\ qs[i].id \in DOMAIN answers
             /\ IF Ungradable(qs[i])
                THEN /\ answers[qs[i].id].correct = Null
                     /\ answers[qs[i].id].pointsAwarded = Num(0)
                     /\ \A weak \in RecordedWeakAreas :
                          \E k \in 1..Len(weak) : weak[k] = qs[i].type \o "-" \o qs[i].level
                ELSE answers[qs[i].id].correct \in {Bool(TRUE), Bool(FALSE)}

\* a quiz of an ungradable text question and an MCQ question has been graded and
\* recorded: the text question is null and tagged, the MCQ question is correct
C16_Witness ==
  /\ Graded
  /\ Len(quiz[1].questions) = 2
  /\ Ungradable(quiz[1].questions[1])
  /\ quiz[1].questions[2].type = "mcq"
  /\ answers[quiz[1].questions[1].id].correct = Null
  /\ answers[quiz[1].questions[2].id].correct = Bool(TRUE)
  /\ RecordedWeakAreas = {<<"text-medium">>}

\* C17: the weakAreas of a recorded attempt is a multiset: every question that is
\* not fully correct or is ungradable contributes one '<type>-<level>' entry, so a
\* tag occurs as many times as there are such questions with that type and level.
C17_WeakAreasIsMultiset ==
  \A weak \in RecordedWeakAreas :
    LET qs == quiz[1].questions
    IN  \A j \in 1..Len(qs) :
          Cardinality({k \in 1..Len(weak) : weak[k] = qs[j].type \o "-" \o qs[j].level})
            = Cardinality({i \in 1..Len(qs) :
                             /\ qs[i].type = qs[j].type
                             /\ qs[i].level = qs[j].level
                             /\ answers[qs[i].id].correct # Bool(TRUE)})

(***************************************************************************)
(* JSON extraction from the model's reply and the tail of                  *)
(* POST /api/quiz/generate (Modal.tsx lines 148-176 and 834-845).          *)
(* A text is a sequence of tokens: "F" is a ``` fence, "{" and "}" are the *)
(* brace characters, "t" is the literal true, "q" is the member            *)
(* "questions":[1], "x" is prose.  Whitespace is not a token: JSON.parse   *)
(* ignores it around a value and the \s* of the fence pattern strips it.   *)
(***************************************************************************)
MaxTextLen == 5

Tokens == {"F", "{", "}", "t", "q", "x"}

AiTexts == UNION {[1..n -> Tokens] : n \in 0..MaxTextLen}

\* JSON.parse(text): None when it throws, otherwise the value
parseJsonStrict(text) ==
  CASE text = <<"t">> -> Some(Bool(TRUE))
    [] text = <<"{", "}">> -> Some([t |-> "object"])
    [] text = <<"{", "q", "}">> ->
         Some([t |-> "object", questions |-> Arr(<<Bool(TRUE)>>)])
    [] OTHER -> None

\* text.match(/```(?:json)?\s*([\s\S]*?)\s*```/i)?.[1]: what lies between the first
\* fence and the next one; None when the pattern does not match
FencedBlock(text) ==
  LET fences == {i \in 1..Len(text) : text[i] = "F"}
  IN  IF Cardinality(fences) < 2 THEN None
      ELSE LET open  == CHOOSE i \in fences : \A j \in fences : i <= j
               close == CHOOSE i \in fences \ {open} : \A j \in fences \ {open} : i <= j
           IN  Some(SubSeq(text, open + 1, close - 1))

\* text.slice(firstBrace, lastBrace + 1) when firstBrace !== -1 && lastBrace > firstBrace
BraceSlice(text) ==
  LET opens  == {i \in 1..Len(text) : text[i] = "{"}
      closes == {i \in 1..Len(text) : text[i] = "}"}
  IN  IF opens = {} \/ closes = {} THEN None
      ELSE LET firstBrace == CHOOSE i \in opens : \A j \in opens : i <= j
               lastBrace  == CHOOSE i \in closes : \A j \in closes : i >= j
           IN  IF lastBrace > firstBrace THEN Some(SubSeq(text, firstBrace, lastBrace))
               ELSE None

\* a variant that looks at the braces before the fenced block
tryExtractJson_BraceFirst(text) ==
  LET fenced == FencedBlock(text)
      braces == BraceSlice(text)
  IN  IF Len(text) = 0 THEN Null
      ELSE IF parseJsonStrict(text) # None THEN parseJsonStrict(text)[1]
      ELSE IF braces # None /\ parseJsonStrict(braces[1]) # None
      THEN parseJsonStrict(braces[1])[1]
      ELSE IF fenced # None /\ Len(fenced[1]) > 0 /\ parseJsonStrict(fenced[1]) # None
      THEN parseJsonStrict(fenced[1])[1]
      ELSE Null

\* tryExtractJson(text): the parsed value, or null
tryExtractJson(text) ==
  LET fenced == FencedBlock(text)
      braces == BraceSlice(text)
  IN  IF Len(text) = 0 THEN Null
      ELSE IF parseJsonStrict(text) # None THEN parseJsonStrict(text)[1]
      ELSE IF fenced # None /\ Len(fenced[1]) > 0 /\ parseJsonStrict(fenced[1]) # None
      THEN parseJsonStrict(fenced[1])[1]
      ELSE IF braces # None /\ parseJsonStrict(braces[1]) # None
      THEN parseJsonStrict(braces[1])[1]
      ELSE Null

\* sendError(res, status, code, message, detail)
sendError(status, code, message) ==
  [status |-> status, ok |-> FALSE, code |-> code, message |-> message]

\* POST /api/quiz/generate from the reply `out` of callModel to the response
GenerateResponse(out, count) ==
  LET parsed == tryExtractJson(out)
      normalized == serverNormalizeQuiz(parsed, count)
  IN  IF ~Truthy(parsed)
      THEN sendError(502, "INVALID_AI_OUTPUT", "Model response was not valid JSON")
      ELSE IF normalized.threw
      THEN sendError(500, "UPSTREAM_AI_ERROR", "Failed to generate quiz")
      ELSE [status |-> 200, ok |-> TRUE, quiz |-> normalized.quiz]

InitExtract ==
  /\ InitClient
  /\ authToken = None
  /\ InitServer
  /\ rawIn \in {Some(text) : text \in AiTexts}
  /\ normOut = None

NextExtract ==
  \/ /\ normOut = None
     /\ normOut' = Some([by |-> "extract", value |-> tryExtractJson(rawIn[1])])
     /\ UNCHANGED <<clientVars, runVars, serverVars, aiVars, rawIn, histVars>>
  \/ /\ normOut = None
     /\ \E count \in 1..MaxCount :
          normOut' = Some([by |-> "generate", count |-> count,
                           response |-> GenerateResponse(rawIn[1], count)])
     /\ UNCHANGED <<clientVars, runVars, serverVars, aiVars, rawIn, histVars>>

SpecExtract == InitExtract /\ [][NextExtract]_vars

\* the values of the three strategies on the text, as sets of at most one value:
\* the whole text; what lies between the first fence and the fence after it; the
\* text from the first '{' to the last '}'
WholeValues(text) ==
  {v \in {Bool(TRUE), [t |-> "object"],
          [t |-> "object", questions |-> Arr(<<Bool(TRUE)>>)]} :
     parseJsonStrict(text) = Some(v)}

BlockValues(text) ==
  UNION {WholeValues(SubSeq(text, i + 1, j - 1)) :
           <<i, j>> \in {p \in (1..Len(text)) \X (1..Len(text)) :
                          /\ p[1] < p[2]
                          /\ text[p[1]] = "F"
                          /\ text[p[2]] = "F"
                          /\ \A k \in 1..(p[2] - 1) : k # p[1] => text[k] # "F"}}

SliceValues(text) ==
  UNION {WholeValues(SubSeq(text, i, j)) :
           <<i, j>> \in {p \in (1..Len(text)) \X (1..Len(text)) :
                          /\ p[1] < p[2]
                          /\ text[p[1]] = "{"
                          /\ text[p[2]] = "}"
                          /\ \A k \in 1..(p[1] - 1) : text[k] # "{"
                          /\ \A k \in (p[2] + 1)..Len(text) : text[k] # "}"}}

\* C18: tryExtractJson returns the value of the first strategy that parses: the
\* whole text, else the first fenced block, else the text from the first '{' to
\* the last '}'; a later strategy counts only if every earlier one failed, and
\* the result is null if all three fail.
C18_FirstParsingTierWins ==
  (normOut # None /\ normOut[1].by = "extract") =>
    LET text   == rawIn[1]
        result == normOut[1].value
    IN  /\ WholeValues(text) # {} => result \in WholeValues(text)
        /\ (WholeValues(text) = {} /\ BlockValues(text) # {}) => result \in BlockValues(text)
        /\ (WholeValues(text) = {} /\ BlockValues(text) = {} /\ SliceValues(text) # {})
             => result \in SliceValues(text)
        /\ (WholeValues(text) = {} /\ BlockValues(text) = {} /\ SliceValues(text) = {})
             => result = Null

\* a text that does not parse as a whole, whose fenced block parses and whose
\* braces parse to something else, has been extracted to the value of the block
C18_Witness ==
  /\ normOut # None
  /\ normOut[1].by = "extract"
  /\ WholeValues(rawIn[1]) = {}
  /\ BlockValues(rawIn[1]) = {Bool(TRUE)}
  /\ SliceValues(rawIn[1]) = {[t |-> "object"]}
  /\ normOut[1].value = Bool(TRUE)

\* C19: for every text with no brace character and no fenced block, the extractor
\* reports "no JSON found": tryExtractJson returns null, and the generate handler
\* takes its failure branch (INVALID_AI_OUTPUT).
C19_NoBracesNoFenceIsNoJson ==
  (/\ normOut # None
   /\ \A k \in 1..Len(rawIn[1]) : rawIn[1][k] \notin {"{", "}"}
   /\ FencedBlock(rawIn[1]) = None) =>
     IF normOut[1].by = "extract" THEN normOut[1].value = Null
     ELSE normOut[1].response.code = "INVALID_AI_OUTPUT"

\* C20: when the reply parses as JSON but yields zero usable questions, the
\* request fails with the code INVALID_AI_OUTPUT, the code of the no-JSON failure,
\* and not with a code used for upstream failures.
C20_EmptyQuizIsInvalidAiOutput ==
  (/\ normOut # None
   /\ normOut[1].by = "generate"
   /\ Truthy(tryExtractJson(rawIn[1]))
   /\ serverNormalizeQuiz(tryExtractJson(rawIn[1]), normOut[1].count).threw) =>
     /\ normOut[1].response.ok = FALSE
     /\ normOut[1].response.code = "INVALID_AI_OUTPUT"

(***************************************************************************)
(* AI quiz generation end to end: generateQuizWithAI of the client         *)
(* (QuizManager.tsx lines 529-562), the handler of POST /api/quiz/generate *)
(* (Modal.tsx lines 803-845) and callModel (backend/callModel.js).  The     *)
(* upstream service may answer, fail or stay silent; the timeout timer may *)
(* expire at any moment while it is live.                                  *)
(***************************************************************************)
MaxGenerations == 2

\* the completions the upstream service can return; the empty one is an empty
\* completion
Completions == {<<>>, <<"x">>, <<"t">>, <<"{", "}">>, <<"{", "q", "}">>}

\* the Error objects callModel throws, by their message
Thrown(message) == [threw |-> TRUE, name |-> "Error", message |-> message]

MissingKey      == "GROQ_API_KEY is not set in backend/.env"
ApiError        == "Groq API error"
EmptyCompletion == "Groq API returned an empty completion"
TimedOut        == "Groq API request timed out"
FetchFailed     == "fetch failed"

\* a variant that leaves the timer running
Settle_TimerLeft(c, result) ==
  [c EXCEPT !.pc = IF result.threw THEN "threw" ELSE "returned", !.result = Some(result)]

\* a variant that issues the request again after a failure
Settle_Retry(c, result) ==
  IF result.threw
  THEN [c EXCEPT !.pc = "fetching", !.sent = @ + 1]
  ELSE [c EXCEPT !.pc = "returned", !.result = Some(result), !.timer = FALSE]

\* callModel returns or throws; `finally` clears the timer (lines 58-66)
Settle(c, result) ==
  [c EXCEPT !.pc = IF result.threw THEN "threw" ELSE "returned", !.result = Some(result),
            !.timer = FALSE]

\* "Generate Quiz with AI" (line 682): generateQuizWithAI up to its fetch
GenerateClick(limit) ==
  /\ mounted
  /\ gen.pc = "idle"
  /\ ~gen.busyGenerating
  /\ gen.clicks < limit
  /\ call.pc = "idle"
  /\ \E topic \in {"", "loops"}, count \in 1..MaxCount :
       call' = [call EXCEPT !.pc = "received", !.topic = topic, !.count = count]
  /\ gen' = [gen EXCEPT !.pc = "waiting", !.busyGenerating = TRUE, !.generateError = "",
                        !.clicks = @ + 1, !.payload = None]
  /\ UNCHANGED <<clientVars, runVars, serverVars, pureVars, histVars>>

\* the handler up to `await callModel(...)`, and callModel up to `await fetch(...)`
HandlerStart ==
  /\ call.pc = "received"
  /\ call' =
       IF call.topic = ""
       THEN [call EXCEPT !.pc = "responded",
               !.response = Some(sendError(400, "BAD_REQUEST",
                 "Provide at least topic or contextCode for quiz generation"))]
       ELSE IF ~call.apiKey
       THEN [call EXCEPT !.pc = "threw", !.result = Some(Thrown(MissingKey))]
       ELSE [call EXCEPT !.pc = "fetching", !.timer = TRUE, !.sent = @ + 1]
  /\ UNCHANGED <<clientVars, runVars, serverVars, gen, pureVars, histVars>>

\* the upstream service answers with a status line: fetch resolves
UpstreamHeaders ==
  /\ call.pc = "fetching"
  /\ \E ok \in BOOLEAN : call' = [call EXCEPT !.pc = "reading", !.ok = ok]
  /\ UNCHANGED <<clientVars, runVars, serverVars, gen, pureVars, histVars>>

\* the body arrives: resp.text() and the throw of line 49, or resp.json() and lines 53-58
UpstreamBody ==
  /\ call.pc = "reading"
  /\ \E text \in Completions :
       call' = Settle(call, IF ~call.ok THEN Thrown(ApiError)
                            ELSE IF Len(text) = 0 THEN Thrown(EmptyCompletion)
                            ELSE [threw |-> FALSE, text |-> text])
  /\ UNCHANGED <<clientVars, runVars, serverVars, gen, pureVars, histVars>>

\* the connection fails: fetch or the body read rejects, the error is rethrown (line 63)
UpstreamError ==
  /\ call.pc \in {"fetching", "reading"}
  /\ call' = Settle(call, Thrown(FetchFailed))
  /\ UNCHANGED <<clientVars, runVars, serverVars, gen, pureVars, histVars>>

\* the timer of line 20 expires: controller.abort(), the pending await rejects with
\* an AbortError, which lines 60-62 replace
TimeoutFires ==
  /\ call.timer
  /\ call.pc \in {"fetching", "reading"}
  /\ call' = Settle([call EXCEPT !.aborted = TRUE], Thrown(TimedOut))
  /\ UNCHANGED <<clientVars, runVars, serverVars, gen, pureVars, histVars>>

\* the handler after callModel: lines 834-840, or the catch of lines 841-844
HandlerFinish ==
  /\ call.pc \in {"returned", "threw"}
  /\ call' = [call EXCEPT !.pc = "responded",
                !.response =
                  Some(IF call.result[1].threw
                       THEN sendError(500, "UPSTREAM_AI_ERROR", "Failed to generate quiz")
                       ELSE GenerateResponse(call.result[1].text, call.count))]
  /\ UNCHANGED <<clientVars, runVars, serverVars, gen, pureVars, histVars>>

\* what the server behind apiBaseUrl may answer besides the responses of the
\* handler above: a 200 that carries no quiz, or a quiz without questions
QuizlessResponses ==
  {[status |-> 200, ok |-> TRUE],
   [status |-> 200, ok |-> TRUE,
    quiz |-> [t |-> "object", title |-> Str("AI Generated Quiz"), questions |-> Arr(<<>>)]]}

\* generateQuizWithAI after `await res.json()` (lines 547-561)
ClientResponse(payload) ==
  /\ mounted
  /\ gen.pc = "waiting"
  /\ call.pc = "responded"
  /\ call' = [IdleCall EXCEPT !.apiKey = call.apiKey]
  /\ IF payload.status # 200
     THEN /\ gen' = [gen EXCEPT !.pc = "idle", !.busyGenerating = FALSE,
                                !.generateError = payload.message,
                                !.payload = Some(payload)]
          /\ UNCHANGED <<clientVars, timers, attached, pending, captured>>
     ELSE /\ gen' = [gen EXCEPT !.pc = "idle", !.busyGenerating = FALSE,
                                !.payload = Some(payload)]
          /\ quiz' = Some(normalizeQuiz(IF "quiz" \in DOMAIN payload THEN payload.quiz
                                        ELSE Undef))
          /\ answers' = <<>>
          /\ score' = None
          /\ Commit("editor", takeStartedAt, proctorEnabled)
          /\ UNCHANGED grading
  /\ UNCHANGED <<mounted, authToken, gradePc, gradeCtx, now, serverVars, pureVars>>

\* the mounted component and a server whose GROQ_API_KEY is set or not
InitGenerate ==
  /\ InitClient
  /\ authToken = None
  /\ db = [u \in {"u1"} |-> NewAnalytics]
  /\ writeQueue = <<>>
  /\ queueRejected = FALSE
  /\ reqs = [s \in Slots |-> Idle]
  /\ uuid = 0
  /\ \E key \in BOOLEAN : call = [IdleCall EXCEPT !.apiKey = key]
  /\ InitPure

NextGenerate ==
  \/ GenerateClick(MaxGenerations)
  \/ HandlerStart
  \/ UpstreamHeaders
  \/ UpstreamBody
  \/ UpstreamError
  \/ TimeoutFires
  \/ HandlerFinish
  \/ ClientResponse(call.response[1])
  \/ \E payload \in QuizlessResponses : ClientResponse(payload)

SpecGenerate == InitGenerate /\ [][NextGenerate]_vars

\* the error callModel threw in the invocation of the current request, if it threw
Failure == IF call.result # None /\ call.result[1].threw THEN call.result[1].message ELSE ""

\* C21: when the AI call exceeds timeoutMs the error returned for the request
\* carries the code UPSTREAM_TIMEOUT, and for a non-2xx or transport failure the
\* different code UPSTREAM_FAILURE.
C21_TimeoutHasItsOwnCode ==
  (call.pc = "responded" /\ Failure # "") =>
    /\ Failure = TimedOut => call.response[1].code = "UPSTREAM_TIMEOUT"
    /\ Failure \in {ApiError, FetchFailed} => call.response[1].code = "UPSTREAM_FAILURE"

\* the failures of callModel after its request went out
RequestFailures == {TimedOut, ApiError, EmptyCompletion, FetchFailed}

\* C22: one invocation of callModel issues exactly one outbound request: it never
\* has sent more than one, and when it has returned a text or failed by a
\* timeout, a non-2xx response, an empty completion or a transport error it has
\* sent exactly one.
C22_OneRequestPerInvocation ==
  /\ call.sent <= 1
  /\ call.pc \in {"fetching", "reading", "returned"} => call.sent = 1
  /\ Failure \in RequestFailures => call.sent = 1 /\ call.pc \in {"threw", "responded"}

\* callModel has failed by a timeout after its single request
C22_Witness ==
  /\ call.pc = "threw"
  /\ Failure = TimedOut
  /\ call.aborted
  /\ call.sent = 1

\* the timer of callModel is a scheduled callback and the handler is running code:
\* both take their step; nothing obliges the upstream service to answer
FairSpecGenerate ==
  SpecGenerate /\ WF_vars(TimeoutFires) /\ WF_vars(HandlerStart) /\ WF_vars(HandlerFinish)

\* C23: every invocation of callModel eventually settles: it returns the text or
\* throws, also when the upstream service never answers (the timer fires, the
\* request is aborted, the timeout error is thrown); on every exit path the
\* timeout timer is cancelled.
C23_CallSettlesAndClearsTimer ==
  /\ [](call.pc \notin {"fetching", "reading"} => ~call.timer)
  /\ [](Failure = TimedOut => call.aborted)
  /\ (call.pc \in {"fetching", "reading"}) ~> (call.pc \in {"returned", "threw"})

\* the status line came in time but the body did not: the call has thrown the
\* timeout error, the request is aborted and no timer is left
C23_Witness ==
  /\ call.pc = "threw"
  /\ call.ok
  /\ Failure = TimedOut
  /\ call.aborted
  /\ ~call.timer

\* the response carries a quiz with at least one question
Usable(payload) ==
  /\ payload.status = 200
  /\ "quiz" \in DOMAIN payload
  /\ Get(payload.quiz, "questions").t = "array"
  /\ Len(Get(payload.quiz, "questions").a) > 0

UploadFiles ==
  UploadInputs \cup
  {NotJson, Null, Arr(<<>>),
   [t |-> "object", title |-> Str("Uploaded")],
   [t |-> "object", title |-> EmptyStr, questions |-> Arr(<<[t |-> "object"]>>)]}

\* handleFileUpload up to reader.readAsText(f) (lines 306-309, 324)
ReadFile ==
  /\ mounted
  /\ rawIn = None
  /\ \E file \in UploadFiles : rawIn' = Some(file)
  /\ UNCHANGED <<clientVars, runVars, serverVars, aiVars, normOut, histVars>>

\* reader.onload
FileLoaded ==
  /\ rawIn # None
  /\ handleFileUpload(rawIn[1])
  /\ rawIn' = None

NextUpload ==
  \/ ReadFile
  \/ FileLoaded
  \/ TakeQuiz
  \/ Answer
  \/ Grade
  \/ GradeFinally

SpecUpload == InitProctor /\ [][NextUpload]_vars

\* C24: an uploaded file that is not valid JSON, or whose top level lacks a title
\* or a questions array, is rejected, and the rejection leaves quiz, mode, answers
\* and score as they were.
C24_RejectedUploadLeavesSession ==
  [][(/\ rawIn # None
      /\ rawIn' = None
      /\ \/ rawIn[1].t # "object"
         \/ "title" \notin DOMAIN rawIn[1]
         \/ ~Truthy(rawIn[1].title)
         \/ "questions" \notin DOMAIN rawIn[1]
         \/ rawIn[1].questions.t # "array")
       => UNCHANGED <<quiz, mode, answers, score>>]_vars

\* a graded session has a titled file without a questions array waiting in the
\* reader
C24_Witness ==
  /\ rawIn # None
  /\ Get(rawIn[1], "title") = Str("Uploaded")
  /\ Get(rawIn[1], "questions").t # "array"
  /\ mode = "results"
  /\ score # None
  /\ answers # <<>>

(***************************************************************************)
(* A signed-in learner takes the quiz with proctoring, collects more than  *)
(* ten events and grades once: the attempt and the proctor events go to    *)
(* the server.  React renders the updates of a signal before the next      *)
(* click is handled.                                                       *)
(***************************************************************************)
MaxExportSignals == 11

\* window blur and copy, in turn
ExportSignal ==
  \E sig \in SignalInputs :
    /\ sig.kind = (IF Len(captured) % 2 = 0 THEN "blur" ELSE "copy")
    /\ sig.kind \in attached
    /\ OnSignal(sig, MaxExportSignals, MaxPending)

\* the token of the registered user u1, or one whose user is not in the datastore
InitExport ==
  /\ InitClient
  /\ authToken \in {Some("u1"), Some("gone")}
  /\ InitServer
  /\ InitPure

NextExport ==
  \/ (mode = "editor" /\ TakeQuiz)
  \/ (gradePc = "idle" /\ ToggleProctor)
  \/ ExportSignal
  \/ Render
  \/ (pending = <<>> /\ GradeClick(1))
  \/ Server
  \/ AttemptResponse
  \/ EventResponse
  \/ GradeFinally

SpecExport == InitExport /\ [][NextExport]_vars

\* the proctor events the server has received from the learner, in order of arrival
Exported == db["u1"].proctorEvents

\* C26: after a graded attempt in which n events were captured, the events
\* exported to the proctor-event endpoint are exactly the min(n, 10) most recent
\* events of the log, each once and in log order, and none is sent before the
\* attempt request has completed.
C26_LastTenEventsExportedAfterAttempt ==
  /\ (gradePc = "event" \/ Len(Exported) > 0) => Len(db["u1"].attempts) = 1
  /\ (gradePc = "finally" /\ Len(db["u1"].attempts) = 1)
       => Exported = LastN(captured, 10)

\* C27: recording an attempt is all-or-nothing: when the record operation fails
\* the persisted datastore is unchanged, and the client does not treat the attempt
\* as recorded: it exports no proctor event and does not call onAttemptRecorded.
C27_FailedRecordingIsNotRecorded ==
  /\ [](authToken[1] \notin DOMAIN db => db = [u \in {"u1"} |-> NewAnalytics])
  /\ [][(/\ gradePc = "attempt"
         /\ gradePc' # "attempt"
         /\ reqs["c1"].status # 200)
          => (gradePc' = "finally" /\ reqs'["c1"] = Idle /\ ~gradeCtx'.notified)]_vars

\* C28: switching proctorEnabled during taking leaves the log and the counter as
\* they were (all events captured so far, none lost, none added) and attaches the
\* observers exactly when it is switched on; while no observer is attached no
\* signal is captured.
C28_ToggleKeepsLogAndCounter ==
  /\ [][(mode = "take" /\ mode' = "take" /\ proctorEnabled' # proctorEnabled)
          => /\ captured' = captured
             /\ proctorEvents' = captured
             /\ proctorWarnings' = Len(captured)
             /\ attached' = (IF proctorEnabled' THEN Observers ELSE {})]_vars
  /\ [][attached = {} => captured' \in {captured, <<>>}]_vars

\* proctoring has been switched off during taking with an event in the log
C28_Witness ==
  /\ mode = "take"
  /\ ~proctorEnabled
  /\ attached = {}
  /\ Len(proctorEvents) > 0
  /\ proctorWarnings = Len(proctorEvents)
  /\ proctorEvents = captured

\* C29: timeElapsed changes only by timer ticks while mode is 'take', each adding
\* 1 (and by the reset to 0 of Take Quiz) for as long as the component is mounted;
\* at most one interval is live, and none
\* outside 'take'; a captured proctoring event or a switch of proctorEnabled
\* leaves timeElapsed and the interval alone.
C29_TimerTicksOnlyWhileTaking ==
  /\ [](timers <= 1 /\ (mode # "take" => timers = 0))
  /\ [][(mounted' /\ Effective'.timeElapsed # Effective.timeElapsed)
          => \/ /\ Effective'.timeElapsed = Effective.timeElapsed + 1
                /\ mode = "take"
                /\ timers = 1
                /\ pending' = Append(pending, [var |-> "timeElapsed", op |-> "inc"])
             \/ /\ Effective'.timeElapsed = 0
                /\ mode' = "take"
                /\ takeStartedAt' = Some(now)
                /\ answers' = <<>>
                /\ score' = None]_vars
  /\ [][(Len(captured') > Len(captured) \/ proctorEnabled' # proctorEnabled)
          => (Effective'.timeElapsed = Effective.timeElapsed /\ timers' = timers)]_vars

\* the timer has ticked in a proctored attempt in which an event was captured
C29_Witness ==
  /\ mode = "take"
  /\ timers = 1
  /\ timeElapsed = 1
  /\ proctorEnabled
  /\ Len(proctorEvents) > 0

\* the raw question list the server normalizer was given, and what it returned
RawList ==
  LET qs == Get(rawIn[1].raw, "questions") IN IF qs.t = "array" THEN qs.a ELSE <<>>

Returned == normOut[1].once.quiz.questions.a

\* C30: the quiz the server normalizer returns has between 1 and maxCount
\* questions; its i-th question is the coercion of the i-th raw question, so no
\* raw question beyond maxCount appears in it; and a question that had no id has
\* the id q<i> of its position in the truncated list.
C30_TruncationBeforeCoercion ==
  (normOut # None /\ normOut[1].by = "server" /\ ~normOut[1].once.threw) =>
    /\ Len(Returned) \in 1..rawIn[1].count
    /\ Len(Returned) = Min2(Len(RawList), rawIn[1].count)
    /\ \A i \in 1..Len(Returned) :
         /\ Returned[i] = serverNormalizeQuestion(RawList[i], i - 1)
         /\ ~Truthy(Get(RawList[i], "id")) => Returned[i].id = Str("q" \o ToString(i))

\* a raw list longer than maxCount was cut, and a kept question got its id
C30_Witness ==
  /\ normOut # None
  /\ normOut[1].by = "server"
  /\ ~normOut[1].once.threw
  /\ Len(RawList) > rawIn[1].count
  /\ Len(Returned) = rawIn[1].count
  /\ \E i \in 1..Len(Returned) :
       /\ ~Truthy(Get(RawList[i], "id"))
       /\ Returned[i].id = Str("q" \o ToString(i))

\* the level a normalizer gave the question it returned
NormalizedLevel == IF normOut[1].by = "client" THEN normOut[1].q.level ELSE normOut[1].q.level.s

\* C31: when the raw points value is absent or invalid (undefined, null, empty or
\* non-numeric), the normalized points are the default of the normalized level:
\* 1 for easy, 2 for medium, 3 for hard.
C31_InvalidPointsDefaultByLevel ==
  (/\ normOut # None
   /\ Get(rawIn[1].raw, "points") \in {Undef, Null, EmptyStr, Str("many")}) =>
    normOut[1].q.points = Int2(LEVEL_POINTS[NormalizedLevel])

NextQueue ==
  \/ Receive
  \/ Read
  \/ Mutate
  \/ Enqueue
  \/ ServerWrite
  \/ ServerWriteFails
  \/ ServerWriteSkipped
  \/ Respond

SpecQueue == Init /\ [][NextQueue]_vars

\* C33: a write chained after a failed one still replaces the file, and while no
\* write has failed the writes are applied one at a time in the order in which
\* writeDb was called.
C33_FailedWriteDoesNotBlockLaterWrites ==
  [][Len(writeQueue') < Len(writeQueue) =>
       /\ writeQueue' = Tail(writeQueue)
       /\ (queueRejected' = queueRejected) =>
            /\ db' = Head(writeQueue).data
            /\ reqs'[Head(writeQueue).slot].pc = "written"]_vars

\* C34: a text or code question with whole points in 1..10 is marked correct, and
\* kept out of the weak areas, only if every one of its keywords or key points
\* matched the answer; a partial match is never marked correct.
C34_PartialMatchIsNeverCorrect ==
  Graded =>
    LET qs == quiz[1].questions
    IN  \A i \in 1..Len(qs) :
          (/\ qs[i].type \in {"text", "code"}
           /\ qs[i].points \in {Int2(p) : p \in 1..10}
           /\ Len(PartsOf(qs[i])) > 0
           /\ Matched(qs[i]) < Len(PartsOf(qs[i]))) =>
            answers[qs[i].id].correct # Bool(TRUE)

\* the questions of the quiz a normalizer returned
NormalizedQuestions ==
  IF normOut[1].by = "client" THEN normOut[1].once.questions
  ELSE IF normOut[1].once.threw THEN <<>>
  ELSE normOut[1].once.quiz.questions.a

\* C35: within a normalized quiz all question ids are distinct, also when some
\* ids are supplied and others are synthesized as q<index+1>.
C35_QuestionIdsDistinct ==
  normOut # None =>
    \A i, j \in 1..Len(NormalizedQuestions) :
      NormalizedQuestions[i].id = NormalizedQuestions[j].id => i = j

(***************************************************************************)
(* Grading and its recording for a learner who is not signed in, is signed *)
(* in, or holds the token of a deleted user, with a datastore whose writes *)
(* can fail                                                                *)
(***************************************************************************)
InitRecord ==
  /\ InitClient
  /\ authToken \in {None, Some("u1"), Some("gone")}
  /\ InitServer
  /\ InitPure

NextRecord ==
  \/ (mode = "editor" /\ TakeQuiz)
  \/ (gradePc = "idle" /\ ToggleProctor)
  \/ ExportSignal
  \/ Render
  \/ (pending = <<>> /\ GradeClick(1))
  \/ Server
  \/ ServerWriteFails
  \/ ServerWriteSkipped
  \/ AttemptResponse
  \/ EventResponse
  \/ GradeFinally

SpecRecord == InitRecord /\ [][NextRecord]_vars

\* The server runs every handler to its response, a chained write settles, the
\* continuation of an awaited fetch runs once the response is there, and the
\* finally block runs when recordAttempt has returned.
FairSpecRecord ==
  /\ SpecRecord
  /\ WF_vars(Server \/ ServerWriteFails \/ ServerWriteSkipped)
  /\ WF_vars(AttemptResponse)
  /\ WF_vars(EventResponse)
  /\ WF_vars(GradeFinally)

\* C36: a grading pass starts only while none is in flight, and it sets mode
\* 'results' and the score in the step that starts the recording; while a pass is
\* in flight grading is true; the continuations of the recording, whether it
\* succeeded, failed or was not attempted, leave mode, score and answers alone;
\* and every pass ends with grading = false.
C36_OneGradingPassThatEnds ==
  /\ [](gradePc # "idle" => grading)
  /\ [][(gradePc = "idle" /\ gradePc' # "idle")
          => (~grading /\ grading' /\ mode' = "results" /\ score' # None)]_vars
  /\ [][(gradePc # "idle" /\ gradePc' # gradePc)
          => (mode' = mode /\ score' = score /\ answers' = answers)]_vars
  /\ (grading ~> ~grading)

\* a pass whose recording was answered 404 has ended, and the session is graded
C36_Witness ==
  /\ authToken = Some("gone")
  /\ gradeCtx.from = "take"
  /\ gradePc = "idle"
  /\ ~grading
  /\ mode = "results"
  /\ score # None

(***************************************************************************)
(* Registration: POST /api/auth/register from two clients at a time        *)
(***************************************************************************)
MaxRegistrations == 3

Emails == {"a@x.org", "b@x.org"}

\* the email of a stored user; the user of the initial datastore has another one
EmailOf(user) == IF "email" \in DOMAIN user THEN user.email ELSE "u1@x.org"

\* the request reaches the handler with name, email and password in order
ReceiveRegister(s, email, limit) ==
  /\ reqs[s].pc \in {"idle", "responded"}
  /\ uuid + Cardinality({x \in Slots : reqs[x].pc \in {"received", "read"}}) < limit
  /\ reqs' = [reqs EXCEPT ![s] = Request("register", "", [t |-> "object", email |-> email])]
  /\ UNCHANGED <<clientVars, runVars, db, writeQueue, queueRejected, uuid, aiVars, pureVars,
                 histVars>>

\* the mutator of the register handler on the copy that was read: EMAIL_EXISTS
\* (409), or the new user with a fresh id
RegisterMutate(s) ==
  /\ reqs[s].pc = "read"
  /\ reqs[s].kind = "register"
  /\ LET copy == reqs[s].local[1]
         id == "r" \o ToString(uuid + 1)
     IN  IF \E u \in DOMAIN copy : EmailOf(copy[u]) = reqs[s].body.email
         THEN /\ reqs' = [reqs EXCEPT ![s].pc = "responded", ![s].status = 409]
              /\ UNCHANGED uuid
         ELSE /\ reqs' = [reqs EXCEPT ![s].pc = "mutated", ![s].uid = id,
                    ![s].local = Some([u \in DOMAIN copy \cup {id} |->
                       IF u = id
                       THEN [attempts |-> <<>>, questionsAsked |-> 0, proctorEvents |-> <<>>,
                             badges |-> <<>>, email |-> reqs[s].body.email]
                       ELSE copy[u]])]
              /\ uuid' = uuid + 1
  /\ UNCHANGED <<clientVars, runVars, db, writeQueue, queueRejected, aiVars, pureVars,
                 histVars>>

NextRegister ==
  \/ \E s \in Slots, email \in Emails : ReceiveRegister(s, email, MaxRegistrations)
  \/ Read
  \/ \E s \in Slots : RegisterMutate(s)
  \/ Enqueue
  \/ ServerWrite
  \/ Respond

SpecRegister == Init /\ [][NextRegister]_vars

\* the registration in slot s returned a token
Registered(s) ==
  reqs[s].pc = "responded" /\ reqs[s].kind = "register" /\ reqs[s].status = 200

\* C37: at most one registration per email address succeeds, also when two
\* requests with the same email are processed concurrently, and every
\* registration that returned a token has its user in the persisted datastore.
C37_OneRegistrationPerEmail ==
  /\ \A s, t \in Slots :
       (Registered(s) /\ Registered(t) /\ reqs[s].body.email = reqs[t].body.email) => s = t
  /\ \A u, v \in DOMAIN db : EmailOf(db[u]) = EmailOf(db[v]) => u = v
  /\ \A s \in Slots : (Registered(s) /\ writeQueue = <<>>) => reqs[s].uid \in DOMAIN db

(***************************************************************************)
(* A session that is taken and graded while quiz files are loaded and      *)
(* generation requests are answered                                        *)
(***************************************************************************)
NextReplace ==
  \/ ReadFile
  \/ FileLoaded
  \/ TakeQuiz
  \/ Answer
  \/ Grade
  \/ GradeFinally
  \/ GenerateClick(MaxGenerations)
  \/ HandlerStart
  \/ UpstreamHeaders
  \/ UpstreamBody
  \/ UpstreamError
  \/ TimeoutFires
  \/ HandlerFinish
  \/ ClientResponse(call.response[1])
  \/ \E payload \in QuizlessResponses : ClientResponse(payload)

SpecReplace == InitGenerate /\ [][NextReplace]_vars

\* the session is back in authoring: editor mode, no answers, no score, no interval
Authoring == mode = "editor" /\ answers = <<>> /\ score = None /\ timers = 0

\* C38: the quiz is replaced only together with a return to authoring: when a
\* loaded file is accepted, when a generation response is accepted, and in every
\* step that changes the quiz, in whatever mode, the session ends in mode
\* 'editor' with answers empty, score null and the timer stopped.
C38_ReplacedQuizReturnsToAuthoring ==
  /\ [][quiz' # quiz => Authoring']_vars
  /\ [][(rawIn # None /\ rawIn' = None /\ ~UploadRejected(rawIn[1])) => Authoring']_vars
  /\ [][(gen.pc = "waiting" /\ gen'.pc = "idle" /\ gen'.payload[1].status = 200)
          => Authoring']_vars

\* a generated quiz was accepted after the learner had started an attempt
C38_Witness ==
  /\ Authoring
  /\ takeStartedAt # None
  /\ gen.pc = "idle"
  /\ gen.payload # None
  /\ gen.payload[1].status = 200
  /\ quiz[1].title = "AI Generated Quiz"

(***************************************************************************)
(* One client records attempts and proctor events, one request at a time,  *)
(* for a user whose stored lists are one entry short of their caps         *)
(***************************************************************************)
MaxOverflow == 2

\* request bodies of POST /api/analytics/attempt, in and out of range
StoredInputs ==
  {[t |-> "object", quizTitle |-> Str("Quiz"), score |-> Int2(50),
    totalQuestions |-> Int2(3), durationSec |-> Int2(10), weakAreas |-> Arr(<<Str("a")>>)],
   [t |-> "object", score |-> Int2(150), totalQuestions |-> Int2(0),
    durationSec |-> Int2(20000),
    weakAreas |-> Arr([i \in 1..9 |-> Str("w" \o ToString(i))])],
   [t |-> "object", score |-> Num(-3), totalQuestions |-> Str("many"),
    weakAreas |-> Str("all")]}

\* an attempt and an event as earlier recordings stored them
OldAttempt(i) ==
  [id |-> i, quizTitle |-> "Quiz", score |-> 50, totalQuestions |-> 3, durationSec |-> 10,
   weakAreas |-> <<>>, proctorSummary |-> Null]

OldEvent == [type |-> "blur", detail |-> "old"]

InitStored ==
  /\ InitClient
  /\ authToken = Some("u1")
  /\ call = IdleCall
  /\ LET stored == [attempts |-> [i \in 1..(MaxStoredAttempts - 1) |-> OldAttempt(i)],
                    questionsAsked |-> 0,
                    proctorEvents |-> [i \in 1..(MaxStoredProctorEvents - 1) |-> OldEvent],
                    badges |-> <<>>]
     IN  db = [u \in {"u1"} |-> [stored EXCEPT !.badges = computeBadges(stored)]]
  /\ writeQueue = <<>>
  /\ queueRejected = FALSE
  /\ reqs = [s \in Slots |-> Idle]
  /\ uuid = MaxStoredAttempts - 1
  /\ InitPure

\* the events recorded since the initial state
NewEvents == {i \in 1..Len(db["u1"].proctorEvents) : db["u1"].proctorEvents[i].detail = "new"}

\* POST /api/proctor/event reaches its handler with a type
ReceiveEvent(s, limit) ==
  /\ reqs[s].pc \in {"idle", "responded"}
  /\ Cardinality(NewEvents) < limit
  /\ reqs' = [reqs EXCEPT ![s] =
       Request("event", "u1", [t |-> "object", type |-> Str("copy"), detail |-> Str("new")])]
  /\ UNCHANGED <<clientVars, runVars, db, writeQueue, queueRejected, uuid, aiVars, pureVars,
                 histVars>>

NextStored ==
  \/ \E body \in StoredInputs :
       ReceiveAttempt("c1", "u1", body, MaxStoredAttempts - 1 + MaxOverflow)
  \/ ReceiveEvent("c1", MaxOverflow)
  \/ Server

SpecStored == InitStored /\ [][NextStored]_vars

\* list `after` is list `before` with entry x appended and cut to its last `cap`
AppendedWithin(before, after, cap) ==
  /\ Len(after) = Min2(Len(before) + 1, cap)
  /\ LET all == Append(before, after[Len(after)])
     IN  \A i \in 1..Len(after) : after[i] = all[Len(all) - Len(after) + i]

\* C39: the stored attempts list holds at most 300 entries and the stored
\* proctorEvents list at most 500; each write of a recording appends its entry at
\* the end and drops only the oldest entries; and every stored attempt has score in
\* 0..100, totalQuestions in 1..100, durationSec in 0..14400 and at most 8
\* weakAreas.
C39_StoredListsCappedAndClamped ==
  /\ [](/\ Len(db["u1"].attempts) <= 300
        /\ Len(db["u1"].proctorEvents) <= 500
        /\ \A i \in 1..Len(db["u1"].attempts) :
             LET a == db["u1"].attempts[i]
             IN  /\ a.score \in 0..100
                 /\ a.totalQuestions \in 1..100
                 /\ a.durationSec \in 0..14400
                 /\ Len(a.weakAreas) <= 8)
  /\ [][Len(writeQueue') < Len(writeQueue) =>
          IF reqs[Head(writeQueue).slot].kind = "attempt"
          THEN /\ db'["u1"].proctorEvents = db["u1"].proctorEvents
               /\ AppendedWithin(db["u1"].attempts, db'["u1"].attempts, 300)
               /\ db'["u1"].attempts[Len(db'["u1"].attempts)].id = uuid
          ELSE /\ db'["u1"].attempts = db["u1"].attempts
               /\ AppendedWithin(db["u1"].proctorEvents, db'["u1"].proctorEvents, 500)
               /\ db'["u1"].proctorEvents[Len(db'["u1"].proctorEvents)].detail = "new"]_vars

\* both lists are full of their most recent entries, the oldest ones dropped, and
\* the last attempt was clamped
C39_Witness ==
  /\ Len(db["u1"].attempts) = 300
  /\ db["u1"].attempts[1].id = 2
  /\ db["u1"].attempts[300].id = 301
  /\ db["u1"].attempts[300].score = 100
  /\ db["u1"].attempts[300].totalQuestions = 1
  /\ db["u1"].attempts[300].durationSec = 14400
  /\ Len(db["u1"].attempts[300].weakAreas) = 8
  /\ Len(db["u1"].proctorEvents) = 500
  /\ db["u1"].proctorEvents[499].detail = "new"
  /\ db["u1"].proctorEvents[498].detail = "old"

====
